---- MODULE Spec2Model ----
(***************************************************************************)
(* dash2hlsd: a live DASH -> HLS translator.                               *)
(*                                                                         *)
(* The module models these layers of the repository:                      *)
(*   - the byte cache and its sweeper   (internal/cache/segment_cache.go)  *)
(*   - the downloader worker pool       (dash.Downloader)                  *)
(*   - the per-channel stream session   (internal/session/session.go)      *)
(*   - the session manager              (internal/session/session.go)      *)
(*   - the timeline functions           (internal/dash/timeline.go)        *)
(*   - the key service                  (internal/key/service.go)          *)
(*   - the playlist URIs and the routes (internal/hls, internal/api)       *)
(*                                                                         *)
(* Specifications:                                                         *)
(*   SpecCache    the cache alone, driven by arbitrary Set/Get callers and *)
(*                an arbitrary liveness provider                           *)
(*   SpecPool     the downloader pool alone, driven by a caller that       *)
(*                queues tasks, reads its result sink and calls Stop       *)
(*   SpecPoolLive SpecPool with the fairness the Go scheduler gives        *)
(*   Spec         one stream session with its pool, the shared cache and   *)
(*                the sweeper fed by GetAllActiveSegmentKeys               *)
(*   SpecLate     the same session started from a later state of its life, *)
(*                with a refreshed timeline and a nearly full window       *)
(*   SpecStop     SpecLate with SessionManager.Stop running against it     *)
(*   SpecStopLive SpecStop with the fairness the Go scheduler gives        *)
(*   SpecManager  concurrent GetOrCreateSession callers on the session map *)
(*   SpecMerge    MergeTimelines applied to small timelines                *)
(*   SpecFind     findSegmentTimeForPlayhead applied to small timelines    *)
(*   SpecSelect   selectRepresentations applied to small adaptation sets   *)
(*   SpecEdge     SpecLate one tick later, the playhead on the last segment *)
(*   SpecRefresh  SpecLate with refreshMPD split at its lock                *)
(*   SpecRead     Spec with readers calling GetMediaPlaylist                *)
(*   SpecKeyService  key.NewService applied to small configurations         *)
(*   SpecURIs     the playlist's URIs looked up by the segment route        *)
(*   SpecProgress Spec with fair workers, result loop and playlist loop    *)
(*   SpecBurst    SpecEdge with the last publication two results behind    *)
(*   SpecFrame    a session over a video and an audio set, from Start to   *)
(*                its first tick, with refreshMPD split at its lock        *)
(*   SpecAudio    Spec over an MPD with an audio set only; SpecAudioLive   *)
(*                adds the fairness the Go scheduler gives                 *)
(*   SpecInit     Spec against an origin that serves every request after   *)
(*                the third; SpecInitLive adds fairness                    *)
(*   SpecAbort    SpecStop with download seen attempt by attempt           *)
(*   SpecPlaylist GenerateMediaPlaylist applied to small MPDs and lists    *)
(***************************************************************************)
EXTENDS Integers, Sequences, FiniteSets, TLC

VARIABLES
    \* ---- SegmentCache ----
    cache,          \* sc.cache: map key -> bytes (a function on the cached keys)
    sweepPc,        \* runEviction position: "idle" | "collected"
    activeKeys,     \* runEviction's local activeKeys (result of the provider)
    \* ---- callers of a stand-alone cache (history of what they did/saw) ----
    setLog,         \* key -> value of the most recent completed Set
    sweptKeys,      \* keys for which a sweep ran after their most recent Set
    lastGet,        \* what the most recent Get returned, and what was expected
    \* ---- Downloader ----
    taskQueue,      \* d.taskQueue: buffered channel of DownloadTask
    queueClosed,    \* close(d.taskQueue) has happened
    worker,         \* per worker goroutine: position, task, attempt, result
    resultsChan,    \* the result sink the tasks carry (buffered channel)
    stopPc,         \* Downloader.Stop: "running" | "waiting" | "returned"
    \* ---- caller of a stand-alone pool ----
    submitted,      \* ids of the tasks QueueDownload has accepted
    delivered,      \* id -> number of results the caller received from the sink
    stopBacklog,    \* number of tasks in the queue when Stop closed it
    \* ---- StreamSession ----
    sets,               \* MPD.Periods[0].sets: the adaptation sets (fixed once fetched)
    timeline,           \* set index -> MPD...sets[i].SegmentTemplate.Timeline.Segments
    currentTargetTime,  \* the virtual playhead, in sessionTimescale ticks
    availableSegments,  \* rep id -> sliding window of completed media segments
    mediaSequence,      \* rep id -> media-sequence counter
    playlistCache,      \* rep id -> published media playlist (only reps published)
    startPc,            \* Start/downloadInitialSegments position
    dl,                 \* download loop: position and locals of downloadNextSegments
    rl,                 \* result loop: position and the result in hand
    ticks,              \* number of download ticks taken so far
    history,            \* rep id -> every segment id appended to the window, in order
    \* ---- shutdown ----
    mstop,              \* SessionManager.Stop position
    loops,              \* downloadLoop, playlistLoop, mpdRefreshLoop: "running" | "exited"
    panicked,           \* a goroutine panicked: the runtime has aborted the process
    \* ---- SessionManager ----
    smMutex,            \* sm.mutex: the holder of the write lock, if any
    sessions,           \* sm.sessions: channel id -> number of the stored session
    gc,                 \* GetOrCreateSession calls in progress or done, per caller
    made,               \* channel id -> number of StreamSession values constructed
    started,            \* the sessions, <<channel id, number>>, whose Start has run
    pools,              \* per session a modelled call constructed: its pool and its ctx
    \* ---- a function applied to an input ----
    fin,                \* the input
    fout,               \* the value returned, once applied
    \* ---- the session's lock, seen step by step ----
    sessMutex,          \* s.mutex: the holder of the write lock, if any
    rf,                 \* refreshMPD: position, what it fetched, how it last ended
    baseURL,            \* s.BaseURL
    lastPlaylist        \* what the most recent GetMediaPlaylist was asked and returned

cacheVars == <<cache, sweepPc, activeKeys>>
callerVars == <<setLog, sweptKeys, lastGet>>
poolVars == <<taskQueue, queueClosed, worker, resultsChan, stopPc>>
poolCallerVars == <<submitted, delivered, stopBacklog>>
sessVars == <<sets, timeline, currentTargetTime, availableSegments, mediaSequence,
              playlistCache, startPc, dl, rl, ticks, history>>
lifeVars == <<mstop, loops, panicked>>
mgrVars == <<smMutex, sessions, gc, made, started, pools>>
fnVars == <<fin, fout>>
accessVars == <<sessMutex, rf, baseURL, lastPlaylist>>
vars == <<cacheVars, callerVars, poolVars, poolCallerVars, sessVars,
          lifeVars, mgrVars, fnVars, accessVars>>

----------------------------------------------------------------------------
(* Cache keys.  fmt.Sprintf("%s/%s/%s", channel, rep, id) is modelled as   *)
(* the tuple of its parts; id is the decimal start time or "init".         *)
ChannelID == "ch"

SegKey(rep, t) == <<ChannelID, rep, "t", t>>
InitKey(rep) == <<ChannelID, rep, "init", 0>>

----------------------------------------------------------------------------
(* Initial values of the parts of the state a specification does not use.  *)

Loops == {"download", "playlist", "refresh"}

\* sm.mutex: free, write-locked by SessionManager.Stop, or write-locked by
\* a caller of GetOrCreateSession.
Free == <<>>
HeldByStop == <<"stop">>
HeldBy(c) == <<"caller", c>>

\* No Stop has been called: the loops run and the process is alive.
InitLifeVars ==
    /\ mstop = "idle"
    /\ loops = [l \in Loops |-> "running"]
    /\ panicked = FALSE

\* What GetOrCreateSession builds with a StreamSession value: NewDownloader
\* has started the worker goroutines, which leave their range loop when
\* Downloader.Stop closes the queue, and context.WithCancel has made ctx,
\* which s.cancel() cancels.
LivePool == [workers |-> "running", ctx |-> "active"]

\* A manager whose map holds a started session for each channel of stored,
\* with no GetOrCreateSession call in progress.  The pool and the ctx of a
\* stored session are poolVars and mstop.
InitMgrVars(stored) ==
    /\ smMutex = Free
    /\ sessions = [c \in stored |-> 1]
    /\ gc = <<>>
    /\ made = [c \in stored |-> 1]
    /\ started = {<<c, 1>> : c \in stored}
    /\ pools = <<>>

NoValue == "none"

\* fout before the function was applied, and after it returned v.
NotApplied == <<>>
Returned(v) == <<v>>

InitFnVars ==
    /\ fin = NoValue
    /\ fout = NotApplied

\* The base URL the first fetch gave, and the one a refresh can give after
\* a redirect.
FirstBaseURL == "u0"
BaseURLs == {"u0", "u1"}

NotAsked == [rep |-> "", found |-> FALSE,
             playlist |-> [mediaSequence |-> 0, segments |-> <<>>]]
IdleRF == [pc |-> "idle", mpd |-> <<>>, base |-> "", last |-> "none"]

InitAccessVars ==
    /\ sessMutex = Free
    /\ rf = IdleRF
    /\ baseURL = FirstBaseURL
    /\ lastPlaylist = NotAsked

----------------------------------------------------------------------------
(* SegmentCache                                                            *)

\* Set with a slip: an existing entry is kept instead of being replaced.
SetKeepOld(key, data) ==
    cache' = cache @@ (key :> data)

\* sc.Set: under the write lock, cache[key] = data.
Set(key, data) ==
    cache' = (key :> data) @@ cache

\* sc.Get: under the read lock, (data, found).
Get(key) ==
    IF key \in DOMAIN cache
    THEN [found |-> TRUE, data |-> cache[key]]
    ELSE [found |-> FALSE, data |-> 0]

\* The deletion pass with a slip: the liveness test is inverted.
EvictInverted(c, live) ==
    [k \in (DOMAIN c) \ live |-> c[k]]

\* The deletion pass of runEviction: every key absent from live is deleted.
Evict(c, live) ==
    [k \in (DOMAIN c) \cap live |-> c[k]]

\* runEviction, first half: the provider is called before the cache lock
\* is taken.
RunEvictionCollect(providerResult) ==
    /\ sweepPc = "idle"
    /\ activeKeys' = providerResult
    /\ sweepPc' = "collected"
    /\ UNCHANGED cache

\* runEviction, second half: under the cache write lock, delete every entry
\* whose key is not in activeKeys; the local activeKeys dies on return.
RunEvictionSweep ==
    /\ sweepPc = "collected"
    /\ cache' = Evict(cache, activeKeys)
    /\ sweepPc' = "idle"
    /\ activeKeys' = {}

----------------------------------------------------------------------------
(* Downloader: a fixed set of workers on one buffered task queue.          *)

NumWorkers == 2     \* workers per pool (the session passes 10)
QueueCap == 1       \* capacity of taskQueue (the code allocates 100)
ResultsCap == 1     \* capacity of the result sink (the session allocates 100)
maxRetries == 3     \* d.maxRetries

Workers == 1..NumWorkers

NoData == "nil"
Body == "body"      \* the bytes the origin serves (opaque to the program)

NoErr == [kind |-> "none", attempts |-> 0, last |-> 0]
NoTask == [id |-> <<>>, url |-> [valid |-> TRUE], rep |-> "", isInit |-> FALSE,
           time |-> 0, duration |-> 0]
NoResult == [task |-> NoTask, data |-> NoData, err |-> NoErr, trace |-> <<>>]
IdleWorker == [st |-> "idle", task |-> NoTask, result |-> NoResult]

\* NewDownloader: empty queue, numWorkers goroutines at the top of their loop.
InitPoolVars ==
    /\ taskQueue = <<>>
    /\ queueClosed = FALSE
    /\ worker = [w \in Workers |-> IdleWorker]
    /\ resultsChan = <<>>
    /\ stopPc = "running"

\* "d.taskQueue <- task" on a closed channel, or blocked on it when it is
\* closed, panics ("send on closed channel").
SendPanics(closed) == closed

\* QueueDownload: a send on taskQueue; it blocks while the buffer is full.
QueueDownload(task) ==
    /\ ~queueClosed
    /\ Len(taskQueue) < QueueCap
    /\ taskQueue' = Append(taskQueue, task)

\* Stop, first statement: close(d.taskQueue).
StopClose ==
    /\ stopPc = "running"
    /\ queueClosed' = TRUE
    /\ stopPc' = "waiting"
    /\ UNCHANGED <<taskQueue, worker, resultsChan>>

\* Stop, second statement: d.workerWG.Wait() returns when every worker has
\* called Done.
StopWait ==
    /\ stopPc = "waiting"
    /\ \A w \in Workers : worker[w].st = "exited"
    /\ stopPc' = "returned"
    /\ UNCHANGED <<taskQueue, queueClosed, worker, resultsChan>>

\* worker: "for task := range d.taskQueue" receives the next task.  The
\* workers waiting on the queue are interchangeable; the one with the least
\* index is taken to be the receiver.
WorkerTake(w) ==
    /\ worker[w].st = "idle"
    /\ \A x \in Workers : worker[x].st = "idle" => w <= x
    /\ taskQueue # <<>>
    /\ worker' = [worker EXCEPT ![w] =
                    [st |-> "busy", task |-> Head(taskQueue), result |-> NoResult]]
    /\ taskQueue' = Tail(taskQueue)
    /\ UNCHANGED <<queueClosed, resultsChan, stopPc>>

\* A range loop with a slip: it ends as soon as the channel is closed.
RangeEndsOnClose(q, closed) == closed

\* The range loop ends when the channel is closed and drained.
RangeEnds(q, closed) == closed /\ q = <<>>

\* worker: the range loop ends, the deferred workerWG.Done() runs.
WorkerExit(w) ==
    /\ worker[w].st = "idle"
    /\ RangeEnds(taskQueue, queueClosed)
    /\ worker' = [worker EXCEPT ![w].st = "exited"]
    /\ UNCHANGED <<taskQueue, queueClosed, resultsChan, stopPc>>

\* The retry loop with a slip: one attempt too many.
LoopContinuesOffByOne(attempt) == attempt <= maxRetries

\* download: after a failed attempt the for loop runs again while
\* attempt+1 <= maxRetries.
LoopContinues(attempt) == attempt + 1 <= maxRetries

\* What the origin answers to the successive requests for one segment:
\* "ok" (200 and a readable body) or "fail" (transport error or deadline,
\* non-200 status, or body read error; each sets lastErr, sleeps retryDelay
\* and continues).
OriginAnswers == [1..(maxRetries + 1) -> {"ok", "fail"}]

\* download: the retry loop from a given attempt on.  The request is built
\* first; a URL that does not parse ends the download without any attempt.
\* trace records the answers to the attempts made.
RECURSIVE DownloadFrom(_, _, _, _)
DownloadFrom(task, answers, attempt, trace) ==
    IF ~task.url.valid
    THEN [task |-> task, data |-> NoData,
          err |-> [kind |-> "create_request", attempts |-> 0, last |-> 0],
          trace |-> trace]
    ELSE LET tr == Append(trace, answers[attempt])
         IN IF answers[attempt] = "ok"
            THEN [task |-> task, data |-> Body, err |-> NoErr, trace |-> tr]
            ELSE IF LoopContinues(attempt)
            THEN DownloadFrom(task, answers, attempt + 1, tr)
            ELSE [task |-> task, data |-> NoData,
                  err |-> [kind |-> "exhausted", attempts |-> maxRetries,
                           last |-> attempt],
                  trace |-> tr]

download(task, answers) == DownloadFrom(task, answers, 1, <<>>)

\* worker: data, err := d.download(task.Segment), against an origin that
\* answers one of answerSet.
WorkerDownload(w, answerSet) ==
    /\ worker[w].st = "busy"
    /\ \E answers \in answerSet :
          worker' = [worker EXCEPT ![w].st = "send",
                                   ![w].result = download(worker[w].task, answers)]
    /\ UNCHANGED <<taskQueue, queueClosed, resultsChan, stopPc>>

\* worker: "task.Result <- DownloadResult{...}"; blocks while the sink is full.
WorkerSend(w) ==
    /\ worker[w].st = "send"
    /\ Len(resultsChan) < ResultsCap
    /\ resultsChan' = Append(resultsChan, worker[w].result)
    /\ worker' = [worker EXCEPT ![w] = IdleWorker]
    /\ UNCHANGED <<taskQueue, queueClosed, stopPc>>

WorkerStep(answerSet) ==
    \E w \in Workers :
        \/ WorkerTake(w)
        \/ WorkerExit(w)
        \/ WorkerDownload(w, answerSet)
        \/ WorkerSend(w)

----------------------------------------------------------------------------
(* The MPDs of the modelled channels: one period each.  The adaptation    *)
(* sets and representations are fixed once the first MPD is fetched; only  *)
(* the timelines change while the session runs (refreshMPD).               *)

PeriodStart == 0    \* period.GetStart() in seconds (no start attribute)

VideoSet ==
    [id |-> "1", contentType |-> "video", timescale |-> 2,
     reps |-> << [id |-> "v1", bandwidth |-> 2, trick |-> FALSE, pto |-> 0],
                 [id |-> "v2", bandwidth |-> 1, trick |-> FALSE, pto |-> 0] >>]

AudioSet ==
    [id |-> "2", contentType |-> "audio", timescale |-> 1,
     reps |-> << [id |-> "a1", bandwidth |-> 1, trick |-> FALSE, pto |-> 0] >>]

SetIdx == 1..Len(sets)

AllRepIds == UNION {{sets[i].reps[j].id : j \in 1..Len(sets[i].reps)} : i \in SetIdx}

\* The timelines of the first MPD fetched and of the MPDs the origin serves
\* on later refreshes, per adaptation set id.
InitialTimeline(as) ==
    IF as.contentType = "video"
    THEN << [t |-> 0, d |-> 2, r |-> 4] >>
    ELSE << [t |-> 0, d |-> 2, r |-> 1] >>

RefreshedTimeline(as) ==
    IF as.contentType = "video"
    THEN << [t |-> 4, d |-> 2, r |-> 6] >>
    ELSE << [t |-> 2, d |-> 2, r |-> 2] >>

----------------------------------------------------------------------------
(* Timeline algebra and representation selection                           *)

MinOf(S) == CHOOSE x \in S : \A y \in S : x <= y
MaxOf(S) == CHOOSE x \in S : \A y \in S : y <= x

RECURSIVE SortedSeq(_)
SortedSeq(S) ==
    IF S = {} THEN <<>> ELSE <<MinOf(S)>> \o SortedSeq(S \ {MinOf(S)})

\* The value a Go map holds for key k after the tuples of segs were stored
\* in order under their T.
LastWithT(segs, k) == segs[MaxOf({i \in 1..Len(segs) : segs[i].t = k})]

\* dash.MergeTimelines: map keyed by S.T, old first, new overwrites, sorted
\* by T.
MergeTimelines(oldTimeline, newTimeline) ==
    LET keysOf(segs) == {segs[i].t : i \in 1..Len(segs)}
        keys == SortedSeq(keysOf(oldTimeline) \cup keysOf(newTimeline))
    IN [i \in 1..Len(keys) |->
            IF keys[i] \in keysOf(newTimeline)
            THEN LastWithT(newTimeline, keys[i])
            ELSE LastWithT(oldTimeline, keys[i])]

\* The cursor walk shared by initializeState and findSegmentTimeForPlayhead:
\* the position after the tuples i..Len(segs), entered with timeCursor = cur.
RECURSIVE EndCursor(_, _, _)
EndCursor(segs, i, cur) ==
    IF i > Len(segs) THEN cur
    ELSE LET c0 == IF segs[i].t > 0 THEN segs[i].t ELSE cur
         IN EndCursor(segs, i + 1, c0 + (segs[i].r + 1) * segs[i].d)

\* findSegmentTimeForPlayhead: <<start, duration>> of the first segment, in
\* timeline order, with playheadTime < start + d; past the end, the last
\* duration before the end cursor; <<0, 0>> otherwise.
RECURSIVE FindFrom(_, _, _, _)
FindFrom(segs, i, cur, playheadTime) ==
    IF i > Len(segs)
    THEN IF Len(segs) > 0 /\ cur > segs[Len(segs)].d
         THEN <<cur - segs[Len(segs)].d, segs[Len(segs)].d>>
         ELSE <<0, 0>>
    ELSE LET s == segs[i]
             c0 == IF s.t > 0 THEN s.t ELSE cur
             hits == {j \in 0..s.r : playheadTime < c0 + j * s.d + s.d}
         IN IF hits # {}
            THEN <<c0 + MinOf(hits) * s.d, s.d>>
            ELSE FindFrom(segs, i + 1, c0 + (s.r + 1) * s.d, playheadTime)

findSegmentTimeForPlayhead(segs, playheadTime) == FindFrom(segs, 1, 0, playheadTime)

\* selectRepresentations, video branch: the scan that keeps the first
\* representation with the strictly highest bandwidth, skipping TrickMode.
RECURSIVE BestRep(_, _, _, _)
BestRep(reps, i, maxBandwidth, best) ==
    IF i > Len(reps) THEN best
    ELSE IF reps[i].trick THEN BestRep(reps, i + 1, maxBandwidth, best)
    ELSE IF reps[i].bandwidth > maxBandwidth
         THEN BestRep(reps, i + 1, reps[i].bandwidth, <<reps[i]>>)
         ELSE BestRep(reps, i + 1, maxBandwidth, best)

selectRepresentations(as) ==
    IF as.contentType = "video" THEN BestRep(as.reps, 1, 0, <<>>)
    ELSE IF as.contentType \in {"audio", "text"} THEN as.reps
    ELSE <<>>

\* initializeState: the set that anchors time (first video set without a
\* TrickMode representation, else the first set).
PrimarySet ==
    LET ok == {i \in SetIdx : /\ sets[i].contentType = "video"
                              /\ \A j \in 1..Len(sets[i].reps) : ~sets[i].reps[j].trick}
    IN IF ok # {} THEN MinOf(ok) ELSE 1

sessionTimescale == sets[PrimarySet].timescale

\* initializeState: the playhead four durations of the last tuple behind the
\* end of the primary timeline, clamped to zero.
InitialPlayhead(segs) ==
    LET maxTime == EndCursor(segs, 1, 0)
        liveDelay == segs[Len(segs)].d * 4
    IN IF maxTime > liveDelay THEN maxTime - liveDelay ELSE 0

\* downloadNextSegments: the session playhead converted to the ticks of a
\* set (seconds = ticks / timescale; truncated as uint64(float) does).
TargetTimeForRep(targetTime, as) ==
    (targetTime * as.timescale) \div sessionTimescale
        - PeriodStart * as.timescale
        + selectRepresentations(as)[1].pto

----------------------------------------------------------------------------
(* StreamSession                                                           *)

playlistLiveSegments == 5
MaxTicks == 2       \* download ticks taken before the model stops ticking

\* The selected representations of all sets, in the order
\* downloadInitialSegments visits them.
RECURSIVE SelectedFrom(_)
SelectedFrom(i) ==
    IF i > Len(sets) THEN <<>>
    ELSE selectRepresentations(sets[i]) \o SelectedFrom(i + 1)

SelectedReps == SelectedFrom(1)

IdleDL == [pc |-> "idle", targetTime |-> 0, set |-> 0, rep |-> 0,
           segT |-> 0, segD |-> 0, vdur |-> 0, task |-> NoTask]
IdleRL == [pc |-> "recv", result |-> NoResult]

\* The session as GetOrCreateSession leaves it after initializeState,
\* before Start has queued the init segments.
InitSessVars(mpdSets) ==
    /\ sets = mpdSets
    /\ timeline = [i \in SetIdx |-> InitialTimeline(sets[i])]
    /\ currentTargetTime = InitialPlayhead(InitialTimeline(sets[PrimarySet]))
    /\ availableSegments = [r \in AllRepIds |-> <<>>]
    /\ mediaSequence = [r \in AllRepIds |-> 0]
    /\ playlistCache = <<>>
    /\ startPc = 1
    /\ dl = IdleDL
    /\ rl = IdleRL
    /\ ticks = 0
    /\ history = [r \in AllRepIds |-> <<>>]

\* The process is alive: no goroutine has panicked.
Alive == ~panicked

\* s.ctx is cancelled once Session.Stop has run its first statement.
Cancelled == mstop \notin {"idle", "locked"}

\* The sweeper's ctx is cancelled once SegmentCache.Stop has run.
CacheCancelled == mstop \in {"cacheStopped", "returned"}

Started == startPc > Len(SelectedReps)

\* Start -> downloadInitialSegments: for the next selected representation,
\* skip when the init key is cached, else queue its init segment.
StartInit ==
    /\ Alive
    /\ ~Started
    /\ LET rep == SelectedReps[startPc]
           initSeg == [id |-> InitKey(rep.id), url |-> [valid |-> TRUE],
                       rep |-> rep.id, isInit |-> TRUE, time |-> 0,
                       duration |-> 0]
       IN IF Get(InitKey(rep.id)).found
          THEN UNCHANGED taskQueue
          ELSE QueueDownload(initSeg)
    /\ startPc' = startPc + 1
    /\ UNCHANGED <<queueClosed, worker, resultsChan, stopPc>>
    /\ UNCHANGED <<sets, timeline, currentTargetTime, availableSegments, mediaSequence,
                   playlistCache, dl, rl, ticks, history>>
    /\ UNCHANGED <<cacheVars, callerVars, poolCallerVars>>
    /\ UNCHANGED <<lifeVars, mgrVars, fnVars, accessVars>>

\* Position of the download loop once set i is done with (continue).
NextSet(d, i) ==
    IF i + 1 > Len(sets)
    THEN [d EXCEPT !.pc = "advance"]
    ELSE [d EXCEPT !.pc = "set", !.set = i + 1]

\* Position once representation j of set i is done with.
NextRep(d, i, j) ==
    IF j + 1 > Len(selectRepresentations(sets[i]))
    THEN NextSet(d, i)
    ELSE [d EXCEPT !.pc = "rep", !.rep = j + 1]

\* downloadLoop tick -> downloadNextSegments: snapshot under the read lock.
DLBegin ==
    /\ Alive
    /\ loops["download"] = "running"
    /\ Started
    /\ dl.pc = "idle"
    /\ sessMutex = Free
    /\ ticks < MaxTicks
    /\ ticks' = ticks + 1
    /\ dl' = [IdleDL EXCEPT !.pc = "set", !.set = 1,
                            !.targetTime = currentTargetTime]
    /\ UNCHANGED <<sets, timeline, currentTargetTime, availableSegments, mediaSequence,
                   playlistCache, startPc, rl, history>>
    /\ UNCHANGED <<cacheVars, callerVars, poolVars, poolCallerVars>>
    /\ UNCHANGED <<lifeVars, mgrVars, fnVars, accessVars>>

\* downloadNextSegments, per adaptation set: the segment at the playhead,
\* read from the session's MPD object without the lock.
DLSet ==
    /\ Alive
    /\ dl.pc = "set"
    /\ LET i == dl.set
           as == sets[i]
           reps == selectRepresentations(as)
       IN IF as.timescale = 0 \/ reps = <<>>
          THEN dl' = NextSet(dl, i)
          ELSE LET found == findSegmentTimeForPlayhead(
                                timeline[i], TargetTimeForRep(dl.targetTime, as))
               IN IF found[2] = 0
                  THEN dl' = NextSet(dl, i)
                  ELSE dl' = [dl EXCEPT
                                !.pc = "rep", !.rep = 1,
                                !.segT = found[1], !.segD = found[2],
                                !.vdur = IF as.contentType = "video"
                                         THEN found[2] ELSE @]
    /\ UNCHANGED <<sets, timeline, currentTargetTime, availableSegments, mediaSequence,
                   playlistCache, startPc, rl, ticks, history>>
    /\ UNCHANGED <<cacheVars, callerVars, poolVars, poolCallerVars>>
    /\ UNCHANGED <<lifeVars, mgrVars, fnVars, accessVars>>

\* downloadNextSegments, per selected representation: skip when the key is
\* cached, else build the task.
DLRep ==
    /\ Alive
    /\ dl.pc = "rep"
    /\ LET rep == selectRepresentations(sets[dl.set])[dl.rep]
           cacheKey == SegKey(rep.id, dl.segT)
       IN IF Get(cacheKey).found
          THEN dl' = NextRep(dl, dl.set, dl.rep)
          ELSE dl' = [dl EXCEPT !.pc = "send",
                        !.task = [id |-> cacheKey, url |-> [valid |-> TRUE],
                                  rep |-> rep.id, isInit |-> FALSE,
                                  time |-> dl.segT, duration |-> dl.segD]]
    /\ UNCHANGED <<sets, timeline, currentTargetTime, availableSegments, mediaSequence,
                   playlistCache, startPc, rl, ticks, history>>
    /\ UNCHANGED <<cacheVars, callerVars, poolVars, poolCallerVars>>
    /\ UNCHANGED <<lifeVars, mgrVars, fnVars, accessVars>>

\* downloadNextSegments: s.Downloader.QueueDownload(task).
DLSend ==
    /\ Alive
    /\ dl.pc = "send"
    /\ IF SendPanics(queueClosed)
       THEN /\ panicked' = TRUE
            /\ dl' = [dl EXCEPT !.pc = "panicked"]
            /\ UNCHANGED taskQueue
       ELSE /\ QueueDownload(dl.task)
            /\ dl' = [NextRep(dl, dl.set, dl.rep) EXCEPT !.task = NoTask]
            /\ UNCHANGED panicked
    /\ UNCHANGED <<queueClosed, worker, resultsChan, stopPc>>
    /\ UNCHANGED <<sets, timeline, currentTargetTime, availableSegments, mediaSequence,
                   playlistCache, startPc, rl, ticks, history>>
    /\ UNCHANGED <<cacheVars, callerVars, poolCallerVars>>
    /\ UNCHANGED <<mstop, loops, mgrVars, fnVars, accessVars>>

\* The playhead update with a slip: "-=" for "+=".
AdvanceBackwards(playhead, videoSegmentDuration) ==
    IF videoSegmentDuration > 0
    THEN playhead - videoSegmentDuration
    ELSE playhead

\* "if videoSegmentDuration > 0 { s.currentTargetTime += videoSegmentDuration }"
Advance(playhead, videoSegmentDuration) ==
    IF videoSegmentDuration > 0
    THEN playhead + videoSegmentDuration
    ELSE playhead

\* downloadNextSegments, end: advance the playhead under the write lock when
\* a video segment was found.
DLAdvance ==
    /\ Alive
    /\ dl.pc = "advance"
    /\ sessMutex = Free
    /\ currentTargetTime' = Advance(currentTargetTime, dl.vdur)
    /\ dl' = IdleDL
    /\ UNCHANGED <<sets, timeline, availableSegments, mediaSequence,
                   playlistCache, startPc, rl, ticks, history>>
    /\ UNCHANGED <<cacheVars, callerVars, poolVars, poolCallerVars>>
    /\ UNCHANGED <<lifeVars, mgrVars, fnVars, accessVars>>

\* resultLoop, first half: receive a result; an error is logged and dropped;
\* a success is written to the cache; an init segment ends there.
ResultRecv ==
    /\ Alive
    /\ rl.pc = "recv"
    /\ resultsChan # <<>>
    /\ resultsChan' = Tail(resultsChan)
    /\ LET result == Head(resultsChan)
       IN IF result.err # NoErr
          THEN UNCHANGED <<cache, rl>>
          ELSE /\ Set(result.task.id, result.data)
               /\ rl' = IF result.task.isInit THEN rl
                        ELSE [pc |-> "append", result |-> result]
    /\ UNCHANGED <<sweepPc, activeKeys>>
    /\ UNCHANGED <<taskQueue, queueClosed, worker, stopPc>>
    /\ UNCHANGED <<sets, timeline, currentTargetTime, availableSegments, mediaSequence,
                   playlistCache, startPc, dl, ticks, history>>
    /\ UNCHANGED <<callerVars, poolCallerVars>>
    /\ UNCHANGED <<lifeVars, mgrVars, fnVars, accessVars>>

\* The window after one more segment, with a slip: the oldest is never
\* dropped.
PushNoTrim(window, seg) == Append(window, seg)

\* The window after one more segment: beyond playlistLiveSegments+2 the
\* oldest is dropped.
Push(window, seg) ==
    IF Len(window) + 1 > playlistLiveSegments + 2
    THEN Tail(Append(window, seg))
    ELSE Append(window, seg)

\* The duplicate test with a slip: nothing is ever found.
foundNever(window, id) == FALSE

\* resultLoop: "found" after the loop over the window, true when an entry
\* has the id of the copy.
found(window, id) == \E i \in 1..Len(window) : window[i].id = id

\* resultLoop, second half: under the session lock, append a copy of the
\* segment (id = decimal start time) unless its id is already in the window.
ResultAppend ==
    /\ Alive
    /\ rl.pc = "append"
    /\ sessMutex = Free
    /\ LET seg == rl.result.task
           repID == seg.rep
           segCopy == [id |-> seg.time, time |-> seg.time,
                       duration |-> seg.duration]
           window == availableSegments[repID]
       IN IF found(window, segCopy.id)
          THEN UNCHANGED <<availableSegments, mediaSequence, history>>
          ELSE /\ availableSegments' =
                     [availableSegments EXCEPT ![repID] = Push(window, segCopy)]
               /\ mediaSequence' =
                     [mediaSequence EXCEPT ![repID] =
                         IF Len(window) + 1 > playlistLiveSegments + 2
                         THEN @ + 1 ELSE @]
               /\ history' = [history EXCEPT ![repID] = Append(@, segCopy.id)]
    /\ rl' = IdleRL
    /\ UNCHANGED <<sets, timeline, currentTargetTime, playlistCache, startPc, dl, ticks>>
    /\ UNCHANGED <<cacheVars, callerVars, poolVars, poolCallerVars>>
    /\ UNCHANGED <<lifeVars, mgrVars, fnVars, accessVars>>

\* hls.GenerateMediaPlaylist: the media sequence and one entry per segment.
GenerateMediaPlaylist(seq, segs) ==
    [mediaSequence |-> seq, segments |-> segs]

\* The slice with a slip: the first n elements instead of the last n.
FirstN(q, n) ==
    IF Len(q) > n THEN SubSeq(q, 1, n) ELSE q

\* "availableSegs[len(availableSegs)-playlistLiveSegments:]" when longer
\* than playlistLiveSegments: the last n elements.
LastN(q, n) ==
    IF Len(q) > n THEN SubSeq(q, Len(q) - n + 1, Len(q)) ELSE q

\* The test of the window with a slip: every window is taken for empty.
HasSegmentsNever(window) == FALSE

\* updatePlaylists: "if len(availableSegs) == 0 { continue }" skips the
\* representation; a window with a segment is published.
HasSegments(window) == Len(window) > 0

\* updatePlaylists: under the session lock, for every representation of the
\* MPD with a non-empty window, publish its last playlistLiveSegments.
UpdatePlaylists ==
    /\ Alive
    /\ loops["playlist"] = "running"
    /\ sessMutex = Free
    /\ Started
    /\ LET ready == {r \in AllRepIds : HasSegments(availableSegments[r])}
       IN playlistCache' =
            [r \in (DOMAIN playlistCache) \cup ready |->
                IF r \in ready
                THEN GenerateMediaPlaylist(
                         mediaSequence[r],
                         LastN(availableSegments[r], playlistLiveSegments))
                ELSE playlistCache[r]]
    /\ UNCHANGED <<sets, timeline, currentTargetTime, availableSegments, mediaSequence,
                   startPc, dl, rl, ticks, history>>
    /\ UNCHANGED <<cacheVars, callerVars, poolVars, poolCallerVars>>
    /\ UNCHANGED <<lifeVars, mgrVars, fnVars, accessVars>>

\* refreshMPD: a failed fetch changes nothing; otherwise, under the session
\* lock, every set of the new MPD found in the current one by id gets the
\* merge of its old and new timeline.
RefreshMPD ==
    /\ Alive
    /\ loops["refresh"] = "running"
    /\ sessMutex = Free
    /\ Started
    /\ \/ UNCHANGED timeline
       \/ timeline' = [i \in SetIdx |->
                          MergeTimelines(timeline[i], RefreshedTimeline(sets[i]))]
    /\ UNCHANGED <<sets, currentTargetTime, availableSegments, mediaSequence,
                   playlistCache, startPc, dl, rl, ticks, history>>
    /\ UNCHANGED <<cacheVars, callerVars, poolVars, poolCallerVars>>
    /\ UNCHANGED <<lifeVars, mgrVars, fnVars, accessVars>>

\* SessionManager.GetAllActiveSegmentKeys: under the session read lock, the
\* key of every segment in a window and the init key of every
\* representation of the MPD.
GetAllActiveSegmentKeys ==
    UNION {{SegKey(r, availableSegments[r][i].id) :
                i \in 1..Len(availableSegments[r])} : r \in AllRepIds}
        \cup {InitKey(r) : r \in AllRepIds}

----------------------------------------------------------------------------
(* The tasks a caller of a stand-alone pool queues: two with a URL that    *)
(* parses and one with a URL http.NewRequestWithContext rejects.           *)

TestTasks ==
    { [id |-> SegKey("r", 1), url |-> [valid |-> TRUE], rep |-> "r",
       isInit |-> FALSE, time |-> 1, duration |-> 1],
      [id |-> SegKey("r", 2), url |-> [valid |-> TRUE], rep |-> "r",
       isInit |-> FALSE, time |-> 2, duration |-> 1],
      [id |-> SegKey("r", 3), url |-> [valid |-> FALSE], rep |-> "r",
       isInit |-> FALSE, time |-> 3, duration |-> 1] }

TestTaskIds == {t.id : t \in TestTasks}

InitPoolCallerVars ==
    /\ submitted = {}
    /\ delivered = [id \in TestTaskIds |-> 0]
    /\ stopBacklog = 0

----------------------------------------------------------------------------
(* A stand-alone cache with its callers (the shape of the cache tests):    *)
(* writers and readers call Set and Get with keys and values of small      *)
(* sets, and the injected provider returns an arbitrary set of keys.       *)

TestKeys == {SegKey("a", 1), SegKey("a", 2), SegKey("b", 1)}
TestValues == {"d1", "d2"}

NoGet == [key |-> <<>>, found |-> FALSE, data |-> 0,
          expectFound |-> FALSE, expectData |-> 0, swept |-> FALSE]

CallerSet(k, v) ==
    /\ Set(k, v)
    /\ setLog' = (k :> v) @@ setLog
    /\ sweptKeys' = sweptKeys \ {k}
    /\ UNCHANGED <<sweepPc, activeKeys, lastGet>>
    /\ UNCHANGED <<poolVars, poolCallerVars, sessVars>>
    /\ UNCHANGED <<lifeVars, mgrVars, fnVars, accessVars>>

CallerGet(k) ==
    /\ lastGet' = [key |-> k,
                   found |-> Get(k).found,
                   data |-> Get(k).data,
                   expectFound |-> k \in DOMAIN setLog,
                   expectData |-> IF k \in DOMAIN setLog THEN setLog[k] ELSE 0,
                   swept |-> k \in sweptKeys]
    /\ UNCHANGED <<cacheVars, setLog, sweptKeys>>
    /\ UNCHANGED <<poolVars, poolCallerVars, sessVars>>
    /\ UNCHANGED <<lifeVars, mgrVars, fnVars, accessVars>>

ProviderCall ==
    /\ \E live \in SUBSET TestKeys : RunEvictionCollect(live)
    /\ UNCHANGED <<callerVars, poolVars, poolCallerVars, sessVars>>
    /\ UNCHANGED <<lifeVars, mgrVars, fnVars, accessVars>>

SweepCall ==
    /\ RunEvictionSweep
    /\ sweptKeys' = DOMAIN setLog
    /\ UNCHANGED <<setLog, lastGet>>
    /\ UNCHANGED <<poolVars, poolCallerVars, sessVars>>
    /\ UNCHANGED <<lifeVars, mgrVars, fnVars, accessVars>>

InitCacheVars ==
    /\ cache = <<>>
    /\ sweepPc = "idle"
    /\ activeKeys = {}

InitCallerVars ==
    /\ setLog = <<>>
    /\ sweptKeys = {}
    /\ lastGet = NoGet

InitCache ==
    /\ InitCacheVars
    /\ InitCallerVars
    /\ InitPoolVars
    /\ InitPoolCallerVars
    /\ InitSessVars(<<VideoSet>>)
    /\ InitLifeVars
    /\ InitMgrVars({ChannelID})
    /\ InitFnVars
    /\ InitAccessVars

NextCache ==
    \/ \E k \in TestKeys, v \in TestValues : CallerSet(k, v)
    \/ \E k \in TestKeys : CallerGet(k)
    \/ ProviderCall
    \/ SweepCall

SpecCache == InitCache /\ [][NextCache]_vars

----------------------------------------------------------------------------
(* A stand-alone pool with its caller (the shape of the downloader tests): *)
(* the caller queues each task of a small set at most once, receives from  *)
(* the sink, and may call Stop once.                                       *)

CallerQueue(task) ==
    /\ task.id \notin submitted
    /\ QueueDownload(task)
    /\ submitted' = submitted \cup {task.id}
    /\ UNCHANGED <<queueClosed, worker, resultsChan, stopPc>>
    /\ UNCHANGED <<delivered, stopBacklog, cacheVars, callerVars, sessVars>>
    /\ UNCHANGED <<lifeVars, mgrVars, fnVars, accessVars>>

CallerReceive ==
    /\ resultsChan # <<>>
    /\ resultsChan' = Tail(resultsChan)
    /\ delivered' = [delivered EXCEPT ![Head(resultsChan).task.id] = @ + 1]
    /\ UNCHANGED <<taskQueue, queueClosed, worker, stopPc>>
    /\ UNCHANGED <<submitted, stopBacklog, cacheVars, callerVars, sessVars>>
    /\ UNCHANGED <<lifeVars, mgrVars, fnVars, accessVars>>

CallerStop ==
    /\ StopClose
    /\ stopBacklog' = Len(taskQueue)
    /\ UNCHANGED <<submitted, delivered, cacheVars, callerVars, sessVars>>
    /\ UNCHANGED <<lifeVars, mgrVars, fnVars, accessVars>>

CallerStopReturns ==
    /\ StopWait
    /\ UNCHANGED <<poolCallerVars, cacheVars, callerVars, sessVars>>
    /\ UNCHANGED <<lifeVars, mgrVars, fnVars, accessVars>>

PoolWorkers ==
    /\ WorkerStep(OriginAnswers)
    /\ UNCHANGED <<poolCallerVars, cacheVars, callerVars, sessVars>>
    /\ UNCHANGED <<lifeVars, mgrVars, fnVars, accessVars>>

InitPool ==
    /\ InitCacheVars
    /\ InitCallerVars
    /\ InitPoolVars
    /\ InitPoolCallerVars
    /\ InitSessVars(<<VideoSet>>)
    /\ InitLifeVars
    /\ InitMgrVars({ChannelID})
    /\ InitFnVars
    /\ InitAccessVars

NextPool ==
    \/ \E task \in TestTasks : CallerQueue(task)
    \/ CallerReceive
    \/ CallerStop
    \/ CallerStopReturns
    \/ PoolWorkers

SpecPool == InitPool /\ [][NextPool]_vars

\* Every goroutine that can take a step eventually does; every HTTP attempt
\* ends (success, failure or deadline); the caller keeps reading its sink.
\* Whether and when the caller queues tasks or calls Stop is left open.
SpecPoolLive ==
    /\ SpecPool
    /\ \A w \in Workers :
         /\ WF_vars(WorkerTake(w) /\ UNCHANGED <<poolCallerVars, cacheVars, callerVars, sessVars, lifeVars, mgrVars, fnVars, accessVars>>)
         /\ WF_vars(WorkerExit(w) /\ UNCHANGED <<poolCallerVars, cacheVars, callerVars, sessVars, lifeVars, mgrVars, fnVars, accessVars>>)
         /\ WF_vars(WorkerDownload(w, OriginAnswers) /\ UNCHANGED <<poolCallerVars, cacheVars, callerVars, sessVars, lifeVars, mgrVars, fnVars, accessVars>>)
         /\ WF_vars(WorkerSend(w) /\ UNCHANGED <<poolCallerVars, cacheVars, callerVars, sessVars, lifeVars, mgrVars, fnVars, accessVars>>)
    /\ WF_vars(CallerReceive)
    /\ WF_vars(CallerStopReturns)

----------------------------------------------------------------------------
(* One stream session with its downloader pool, the manager's cache and    *)
(* the cache sweeper fed by GetAllActiveSegmentKeys.                       *)

SweeperCollect ==
    /\ Alive
    /\ smMutex = Free
    /\ sessMutex = Free
    /\ RunEvictionCollect(GetAllActiveSegmentKeys)
    /\ UNCHANGED <<callerVars, poolVars, poolCallerVars, sessVars>>
    /\ UNCHANGED <<lifeVars, mgrVars, fnVars, accessVars>>

SweeperSweep ==
    /\ Alive
    /\ RunEvictionSweep
    /\ UNCHANGED <<callerVars, poolVars, poolCallerVars, sessVars>>
    /\ UNCHANGED <<lifeVars, mgrVars, fnVars, accessVars>>

\* The origin of the modelled channel: a segment is served at once, after
\* one failed attempt, or never.
SessionOrigin ==
    { [k \in 1..(maxRetries + 1) |-> "ok"],
      [k \in 1..(maxRetries + 1) |-> IF k = 1 THEN "fail" ELSE "ok"],
      [k \in 1..(maxRetries + 1) |-> "fail"] }

SessionWorkers ==
    /\ Alive
    /\ WorkerStep(SessionOrigin)
    /\ UNCHANGED <<poolCallerVars, cacheVars, callerVars, sessVars>>
    /\ UNCHANGED <<lifeVars, mgrVars, fnVars, accessVars>>

Init ==
    /\ InitCacheVars
    /\ InitCallerVars
    /\ InitPoolVars
    /\ InitPoolCallerVars
    /\ InitSessVars(<<VideoSet>>)
    /\ InitLifeVars
    /\ InitMgrVars({ChannelID})
    /\ InitFnVars
    /\ InitAccessVars

Next ==
    \/ StartInit
    \/ DLBegin
    \/ DLSet
    \/ DLRep
    \/ DLSend
    \/ DLAdvance
    \/ SessionWorkers
    \/ ResultRecv
    \/ ResultAppend
    \/ UpdatePlaylists
    \/ RefreshMPD
    \/ SweeperCollect
    \/ SweeperSweep

Spec == Init /\ [][Next]_vars

\* Start runs to its end, every worker that can take a step eventually
\* takes it, and the result loop and the playlist loop keep running.  When
\* the download ticker fires or the sweeper runs is left open.
SpecProgress ==
    /\ Spec
    /\ WF_vars(StartInit)
    /\ WF_vars(SessionWorkers)
    /\ WF_vars(ResultRecv) /\ WF_vars(ResultAppend)
    /\ WF_vars(UpdatePlaylists)

----------------------------------------------------------------------------
(* The same session later in its life: the timeline has been refreshed,    *)
(* playlistLiveSegments+1 consecutive segments have been downloaded,       *)
(* cached, appended and published, every loop is back at its tick, and the *)
(* pool is idle.                                                           *)

RECURSIVE SmoothRun(_, _, _)
SmoothRun(segs, playhead, n) ==
    IF n = 0 THEN <<>>
    ELSE LET at == findSegmentTimeForPlayhead(segs, playhead)
         IN <<[id |-> at[1], time |-> at[1], duration |-> at[2]]>>
              \o SmoothRun(segs, playhead + at[2], n - 1)

LateTimeline == MergeTimelines(InitialTimeline(VideoSet), RefreshedTimeline(VideoSet))

LateWindow ==
    SmoothRun(LateTimeline, InitialPlayhead(InitialTimeline(VideoSet)),
              playlistLiveSegments + 1)

\* The session after the segments of window, downloaded one per tick, have
\* been cached and appended, the playlist published last listing the
\* segments listed.
InitPublished(window, listed) ==
    /\ InitCallerVars
    /\ InitPoolVars
    /\ InitPoolCallerVars
    /\ sets = <<VideoSet>>
    /\ timeline = <<LateTimeline>>
    /\ currentTargetTime = window[Len(window)].time
                             + window[Len(window)].duration
    /\ availableSegments = [r \in AllRepIds |-> IF r = "v1" THEN window ELSE <<>>]
    /\ mediaSequence = [r \in AllRepIds |-> 0]
    /\ playlistCache = ("v1" :> GenerateMediaPlaylist(0, listed))
    /\ startPc = Len(SelectedReps) + 1
    /\ dl = IdleDL
    /\ rl = IdleRL
    /\ ticks = 0
    /\ history = [r \in AllRepIds |->
                    IF r = "v1" THEN [i \in 1..Len(window) |-> window[i].id]
                    ELSE <<>>]
    /\ cache = [k \in {InitKey("v1")}
                       \cup {SegKey("v1", window[i].id) : i \in 1..Len(window)}
                  |-> Body]
    /\ sweepPc = "idle"
    /\ activeKeys = {}
    /\ InitLifeVars
    /\ InitMgrVars({ChannelID})
    /\ InitFnVars
    /\ InitAccessVars

\* ... and a playlist has been published since the last append.
InitAfter(window) == InitPublished(window, LastN(window, playlistLiveSegments))

InitLate == InitAfter(LateWindow)

NextLate ==
    \/ DLBegin
    \/ DLSet
    \/ DLRep
    \/ DLSend
    \/ DLAdvance
    \/ SessionWorkers
    \/ ResultRecv
    \/ ResultAppend
    \/ UpdatePlaylists
    \/ RefreshMPD
    \/ SweeperCollect
    \/ SweeperSweep

SpecLate == InitLate /\ [][NextLate]_vars

\* One tick later: the playhead is on the last segment of the timeline, the
\* window is full, and no refresh has arrived since.
EdgeWindow ==
    SmoothRun(LateTimeline, InitialPlayhead(InitialTimeline(VideoSet)),
              playlistLiveSegments + 2)

InitEdge == InitAfter(EdgeWindow)

SpecEdge == InitEdge /\ [][NextLate]_vars

\* The same window, but the publisher's last run was when the window held
\* playlistLiveSegments segments: the results of the two ticks since then
\* arrived between two runs of updatePlaylists.
InitBurst == InitPublished(EdgeWindow, FirstN(EdgeWindow, playlistLiveSegments))

SpecBurst == InitBurst /\ [][NextLate]_vars

----------------------------------------------------------------------------
(* The session with its lock seen step by step: refreshMPD fetches without *)
(* the lock, then takes s.mutex, merges and writes BaseURL, and releases   *)
(* it; a reader asks for media playlists.                                  *)

HeldByRefresh == <<"refresh">>

\* What FetchAndParseMPD answers a refresh with: an error, or the origin's
\* current timelines and the base URL the request ended at.
\* The new MPD lists the session's adaptation sets, by id, with their
\* current timelines, and possibly one more set the session has never seen.
NewSet == [id |-> "9", timeline |-> << [t |-> 0, d |-> 2, r |-> 0] >>]

RefreshedSets ==
    [i \in SetIdx |-> [id |-> sets[i].id, timeline |-> RefreshedTimeline(sets[i])]]

RefreshResults ==
    {[err |-> TRUE, mpd |-> <<>>, base |-> ""]}
      \cup {[err |-> FALSE, mpd |-> m, base |-> u] :
               m \in {RefreshedSets, Append(RefreshedSets, NewSet)},
               u \in BaseURLs}

\* refreshMPD: "oldAS", the first adaptation set of the session's MPD whose
\* id is the id of the new set (0 for nil).  There is one period, and both
\* MPDs give it the same id.
OldAS(id) ==
    LET same == {k \in SetIdx : sets[k].id = id}
    IN IF same = {} THEN 0 ELSE MinOf(same)

\* refreshMPD: the loop over the sets of the new MPD, from set j on: each
\* is merged into the timeline of its oldAS, or logged and left out.
RECURSIVE MergeNewSets(_, _, _)
MergeNewSets(timelines, newSets, j) ==
    IF j > Len(newSets) THEN timelines
    ELSE LET k == OldAS(newSets[j].id)
         IN MergeNewSets(
               IF k = 0 THEN timelines
               ELSE [timelines EXCEPT
                       ![k] = MergeTimelines(timelines[k], newSets[j].timeline)],
               newSets, j + 1)

\* "if err != nil" with a slip: the error is not looked at.
FetchFailedIgnored(res) == FALSE

\* refreshMPD: "if err != nil { ...; return }".
FetchFailed(res) == res.err

\* refreshMPD: the fetch, outside the lock.
RefreshFetch ==
    /\ Alive
    /\ loops["refresh"] = "running"
    /\ Started
    /\ rf.pc = "idle"
    /\ \E res \in RefreshResults :
          rf' = [pc |-> "fetched", mpd |-> res.mpd, base |-> res.base,
                 last |-> IF res.err THEN "failed" ELSE "fetched"]
    /\ UNCHANGED <<sessMutex, baseURL, lastPlaylist>>
    /\ UNCHANGED <<cacheVars, callerVars, poolVars, poolCallerVars, sessVars>>
    /\ UNCHANGED <<lifeVars, mgrVars, fnVars>>

\* refreshMPD: a failed fetch is logged and the refresh returns.
RefreshFail ==
    /\ Alive
    /\ rf.pc = "fetched"
    /\ FetchFailed([err |-> rf.last = "failed"])
    /\ rf' = [rf EXCEPT !.pc = "idle"]
    /\ UNCHANGED <<sessMutex, baseURL, lastPlaylist>>
    /\ UNCHANGED <<cacheVars, callerVars, poolVars, poolCallerVars, sessVars>>
    /\ UNCHANGED <<lifeVars, mgrVars, fnVars>>

\* refreshMPD: s.mutex.Lock().
RefreshLock ==
    /\ Alive
    /\ rf.pc = "fetched"
    /\ ~FetchFailed([err |-> rf.last = "failed"])
    /\ sessMutex = Free
    /\ sessMutex' = HeldByRefresh
    /\ rf' = [rf EXCEPT !.pc = "merging"]
    /\ UNCHANGED <<baseURL, lastPlaylist>>
    /\ UNCHANGED <<cacheVars, callerVars, poolVars, poolCallerVars, sessVars>>
    /\ UNCHANGED <<lifeVars, mgrVars, fnVars>>

\* refreshMPD under the lock: every set gets the merge of its old and new
\* timeline, BaseURL is overwritten, the deferred Unlock runs.
RefreshMerge ==
    /\ Alive
    /\ rf.pc = "merging"
    /\ timeline' = MergeNewSets(timeline, rf.mpd, 1)
    /\ baseURL' = rf.base
    /\ sessMutex' = Free
    /\ rf' = [IdleRF EXCEPT !.last = "merged"]
    /\ UNCHANGED lastPlaylist
    /\ UNCHANGED <<sets, currentTargetTime, availableSegments, mediaSequence,
                   playlistCache, startPc, dl, rl, ticks, history>>
    /\ UNCHANGED <<cacheVars, callerVars, poolVars, poolCallerVars>>
    /\ UNCHANGED <<lifeVars, mgrVars, fnVars>>

NextRefresh ==
    \/ DLBegin
    \/ DLSet
    \/ DLRep
    \/ DLSend
    \/ DLAdvance
    \/ SessionWorkers
    \/ ResultRecv
    \/ ResultAppend
    \/ UpdatePlaylists
    \/ RefreshFetch
    \/ RefreshFail
    \/ RefreshLock
    \/ RefreshMerge
    \/ SweeperCollect
    \/ SweeperSweep

SpecRefresh == InitLate /\ [][NextRefresh]_vars

\* A session over an MPD with a video and an audio adaptation set, from its
\* construction on.  AdaptationSet@id is optional in an MPD: a set without
\* the attribute parses with the id "".
WithoutId(as) == [as EXCEPT !.id = ""]

FrameMPDs == {<<VideoSet, AudioSet>>, <<WithoutId(VideoSet), WithoutId(AudioSet)>>}

InitFrame ==
    /\ InitCacheVars
    /\ InitCallerVars
    /\ InitPoolVars
    /\ InitPoolCallerVars
    /\ \E m \in FrameMPDs : InitSessVars(m)
    /\ InitLifeVars
    /\ InitMgrVars({ChannelID})
    /\ InitFnVars
    /\ InitAccessVars

\* The session from Start to its first download tick (the download ticker
\* fires after two seconds), with the refreshes that arrive meanwhile.
NextFrame ==
    \/ StartInit
    \/ SessionWorkers
    \/ ResultRecv
    \/ RefreshFetch
    \/ RefreshFail
    \/ RefreshLock
    \/ RefreshMerge

SpecFrame == InitFrame /\ [][NextFrame]_vars

----------------------------------------------------------------------------
(* The session of Spec over an MPD that has an audio adaptation set only:  *)
(* initializeState finds no video set and anchors time on the first set.   *)

InitAudio ==
    /\ InitCacheVars
    /\ InitCallerVars
    /\ InitPoolVars
    /\ InitPoolCallerVars
    /\ InitSessVars(<<AudioSet>>)
    /\ InitLifeVars
    /\ InitMgrVars({ChannelID})
    /\ InitFnVars
    /\ InitAccessVars

SpecAudio == InitAudio /\ [][Next]_vars

\* Start runs to its end, the download ticker fires, and every goroutine
\* that can take a step eventually takes it.
SpecAudioLive ==
    /\ SpecAudio
    /\ WF_vars(StartInit)
    /\ WF_vars(DLBegin)
    /\ WF_vars(DLSet) /\ WF_vars(DLRep) /\ WF_vars(DLSend) /\ WF_vars(DLAdvance)
    /\ WF_vars(SessionWorkers)
    /\ WF_vars(ResultRecv) /\ WF_vars(ResultAppend)
    /\ WF_vars(UpdatePlaylists)
    /\ WF_vars(RefreshMPD)

----------------------------------------------------------------------------
(* The session of Spec against an origin that recovers: whatever it        *)
(* answers to the first maxRetries requests for a segment, it serves the   *)
(* segment to every request after them.                                    *)

RecoveringOrigin == {answers \in OriginAnswers : answers[maxRetries + 1] = "ok"}

SessionWorkersRecovering ==
    /\ Alive
    /\ WorkerStep(RecoveringOrigin)
    /\ UNCHANGED <<poolCallerVars, cacheVars, callerVars, sessVars>>
    /\ UNCHANGED <<lifeVars, mgrVars, fnVars, accessVars>>

NextInit ==
    \/ StartInit
    \/ DLBegin
    \/ DLSet
    \/ DLRep
    \/ DLSend
    \/ DLAdvance
    \/ SessionWorkersRecovering
    \/ ResultRecv
    \/ ResultAppend
    \/ UpdatePlaylists
    \/ RefreshMPD
    \/ SweeperCollect
    \/ SweeperSweep

SpecInit == Init /\ [][NextInit]_vars

\* Start runs to its end, every goroutine that can take a step eventually
\* takes it and every HTTP attempt ends.  When a tick fires, the MPD is
\* refetched or the sweeper runs is left open.
SpecInitLive ==
    /\ SpecInit
    /\ WF_vars(StartInit)
    /\ WF_vars(DLSet) /\ WF_vars(DLRep) /\ WF_vars(DLSend) /\ WF_vars(DLAdvance)
    /\ WF_vars(SessionWorkersRecovering)
    /\ WF_vars(ResultRecv) /\ WF_vars(ResultAppend)
    /\ WF_vars(SweeperSweep)

\* GetMediaPlaylist with a slip: a representation without a playlist is
\* answered with an empty one.
GetMediaPlaylistAlways(playlists, repId) ==
    [rep |-> repId, found |-> TRUE,
     playlist |-> IF repId \in DOMAIN playlists THEN playlists[repId]
                  ELSE NotAsked.playlist]

\* GetMediaPlaylist: the cached playlist of the representation, or the
\* error "playlist for representation ... not found in cache".
GetMediaPlaylist(playlists, repId) ==
    IF repId \in DOMAIN playlists
    THEN [rep |-> repId, found |-> TRUE, playlist |-> playlists[repId]]
    ELSE [rep |-> repId, found |-> FALSE, playlist |-> NotAsked.playlist]

\* handleMediaPlaylist, one attempt: GetMediaPlaylist under the read lock.
GetMediaPlaylistCall ==
    /\ Alive
    /\ Started
    /\ sessMutex = Free
    /\ \E r \in AllRepIds : lastPlaylist' = GetMediaPlaylist(playlistCache, r)
    /\ UNCHANGED <<sessMutex, rf, baseURL>>
    /\ UNCHANGED <<cacheVars, callerVars, poolVars, poolCallerVars, sessVars>>
    /\ UNCHANGED <<lifeVars, mgrVars, fnVars>>

NextRead ==
    \/ StartInit
    \/ DLBegin
    \/ DLSet
    \/ DLRep
    \/ DLSend
    \/ DLAdvance
    \/ SessionWorkers
    \/ ResultRecv
    \/ ResultAppend
    \/ UpdatePlaylists
    \/ RefreshMPD
    \/ SweeperCollect
    \/ SweeperSweep
    \/ GetMediaPlaylistCall

SpecRead == Init /\ [][NextRead]_vars

----------------------------------------------------------------------------
(* Shutdown of the session, some time into its life: SessionManager.Stop   *)
(* on a manager that holds the one session, the loops leaving their select *)
(* on ctx.Done(), and the sweeper leaving its own.                         *)

\* SessionManager.Stop: sm.mutex.Lock().  GetOrCreateSession holds the lock
\* until Start has returned, so Stop finds a started session.
ManagerStopLock ==
    /\ Alive
    /\ Started
    /\ mstop = "idle"
    /\ smMutex = Free
    /\ mstop' = "locked"
    /\ smMutex' = HeldByStop
    /\ UNCHANGED <<loops, panicked, sessions, gc, made, started, pools>>
    /\ UNCHANGED <<cacheVars, callerVars, poolVars, poolCallerVars, sessVars, fnVars, accessVars>>

\* StreamSession.Stop, first statement: s.cancel().
SessionCancel ==
    /\ Alive
    /\ mstop = "locked"
    /\ mstop' = "cancelled"
    /\ UNCHANGED <<loops, panicked, mgrVars>>
    /\ UNCHANGED <<cacheVars, callerVars, poolVars, poolCallerVars, sessVars, fnVars, accessVars>>

\* StreamSession.Stop, second statement: s.Downloader.Stop() closes the queue...
SessionStopClose ==
    /\ Alive
    /\ mstop = "cancelled"
    /\ StopClose
    /\ mstop' = "closed"
    /\ UNCHANGED <<loops, panicked, mgrVars>>
    /\ UNCHANGED <<cacheVars, callerVars, poolCallerVars, sessVars, fnVars, accessVars>>

\* ... and returns when every worker has exited.
SessionStopWait ==
    /\ Alive
    /\ mstop = "closed"
    /\ StopWait
    /\ mstop' = "drained"
    /\ UNCHANGED <<loops, panicked, mgrVars>>
    /\ UNCHANGED <<cacheVars, callerVars, poolCallerVars, sessVars, fnVars, accessVars>>

\* SessionManager.Stop: sm.segCache.Stop() cancels the sweeper's ctx.
CacheStop ==
    /\ Alive
    /\ mstop = "drained"
    /\ mstop' = "cacheStopped"
    /\ UNCHANGED <<loops, panicked, mgrVars>>
    /\ UNCHANGED <<cacheVars, callerVars, poolVars, poolCallerVars, sessVars, fnVars, accessVars>>

\* SessionManager.Stop returns; the deferred sm.mutex.Unlock() runs.
ManagerStopReturn ==
    /\ Alive
    /\ mstop = "cacheStopped"
    /\ mstop' = "returned"
    /\ smMutex' = Free
    /\ UNCHANGED <<loops, panicked, sessions, gc, made, started, pools>>
    /\ UNCHANGED <<cacheVars, callerVars, poolVars, poolCallerVars, sessVars, fnVars, accessVars>>

\* downloadLoop, playlistLoop, mpdRefreshLoop: "case <-s.ctx.Done(): return",
\* taken at the select (the download loop is there between two ticks).
LoopExit(l) ==
    /\ Alive
    /\ Cancelled
    /\ loops[l] = "running"
    /\ l = "download" => dl.pc = "idle"
    /\ loops' = [loops EXCEPT ![l] = "exited"]
    /\ UNCHANGED <<mstop, panicked, mgrVars>>
    /\ UNCHANGED <<cacheVars, callerVars, poolVars, poolCallerVars, sessVars, fnVars, accessVars>>

LoopsExit == \E l \in Loops : LoopExit(l)

\* evictionWorker: "case <-sc.ctx.Done(): return".
SweeperExit ==
    /\ Alive
    /\ CacheCancelled
    /\ sweepPc = "idle"
    /\ sweepPc' = "exited"
    /\ UNCHANGED <<cache, activeKeys>>
    /\ UNCHANGED <<callerVars, poolVars, poolCallerVars, sessVars>>
    /\ UNCHANGED <<lifeVars, mgrVars, fnVars, accessVars>>

NextStop ==
    \/ DLBegin
    \/ DLSet
    \/ DLRep
    \/ DLSend
    \/ DLAdvance
    \/ SessionWorkers
    \/ ResultRecv
    \/ ResultAppend
    \/ UpdatePlaylists
    \/ RefreshMPD
    \/ SweeperCollect
    \/ SweeperSweep
    \/ ManagerStopLock
    \/ SessionCancel
    \/ SessionStopClose
    \/ SessionStopWait
    \/ CacheStop
    \/ ManagerStopReturn
    \/ LoopsExit
    \/ SweeperExit

SpecStop == InitLate /\ [][NextStop]_vars

\* Every goroutine that can take a step eventually takes it, every HTTP
\* attempt ends, and a select that finds its ctx.Done() case ready again
\* and again eventually takes it.  Whether and when Stop is called, a tick fires or the MPD is
\* refetched is left open.
SpecStopLive ==
    /\ SpecStop
    /\ WF_vars(DLSet) /\ WF_vars(DLRep) /\ WF_vars(DLSend) /\ WF_vars(DLAdvance)
    /\ WF_vars(SessionWorkers)
    /\ WF_vars(ResultRecv) /\ WF_vars(ResultAppend)
    /\ WF_vars(SweeperSweep)
    /\ WF_vars(SessionCancel) /\ WF_vars(SessionStopClose)
    /\ WF_vars(SessionStopWait) /\ WF_vars(CacheStop) /\ WF_vars(ManagerStopReturn)
    /\ \A l \in Loops : SF_vars(LoopExit(l))
    /\ SF_vars(SweeperExit)

----------------------------------------------------------------------------
(* download seen attempt by attempt, next to Session.Stop.  Every attempt  *)
(* builds its request on context.WithTimeout(context.Background(),         *)
(* RequestTimeout): the request ends when the origin answers or when its   *)
(* own deadline passes ("fail"), whatever happens to the session's ctx.    *)

\* download: the top of the retry loop.  The request is built; a URL that
\* does not parse ends the download, otherwise httpClient.Do is called.
AttemptBegin(w) ==
    /\ worker[w].st = "busy"
    /\ worker' = [worker EXCEPT ![w] =
                    IF ~worker[w].task.url.valid
                    THEN [@ EXCEPT !.st = "send",
                                   !.result = download(worker[w].task,
                                                       CHOOSE a \in OriginAnswers : TRUE)]
                    ELSE [@ EXCEPT !.st = "request",
                                   !.result = [@ EXCEPT !.task = worker[w].task]]]
    /\ UNCHANGED <<taskQueue, queueClosed, resultsChan, stopPc>>

\* download: the attempt ends.  On "ok" the body is returned; on "fail"
\* lastErr is set and, after time.Sleep(retryDelay), the loop goes round
\* again or the download gives up.
AttemptEnd(w) ==
    /\ worker[w].st = "request"
    /\ \E answer \in {"ok", "fail"} :
          LET tr == Append(worker[w].result.trace, answer)
          IN worker' = [worker EXCEPT ![w] =
                IF answer = "ok"
                THEN [@ EXCEPT !.st = "send",
                               !.result = [task |-> worker[w].task, data |-> Body,
                                           err |-> NoErr, trace |-> tr]]
                ELSE IF LoopContinues(Len(tr))
                THEN [@ EXCEPT !.st = "busy", !.result.trace = tr]
                ELSE [@ EXCEPT !.st = "send",
                               !.result = [task |-> worker[w].task, data |-> NoData,
                                           err |-> [kind |-> "exhausted",
                                                    attempts |-> maxRetries,
                                                    last |-> Len(tr)],
                                           trace |-> tr]]]
    /\ UNCHANGED <<taskQueue, queueClosed, resultsChan, stopPc>>

SessionWorkerSteps ==
    /\ Alive
    /\ \E w \in Workers :
          \/ WorkerTake(w)
          \/ WorkerExit(w)
          \/ AttemptBegin(w)
          \/ AttemptEnd(w)
          \/ WorkerSend(w)
    /\ UNCHANGED <<poolCallerVars, cacheVars, callerVars, sessVars>>
    /\ UNCHANGED <<lifeVars, mgrVars, fnVars, accessVars>>

NextAbort ==
    \/ DLBegin
    \/ DLSet
    \/ DLRep
    \/ DLSend
    \/ DLAdvance
    \/ SessionWorkerSteps
    \/ ResultRecv
    \/ ResultAppend
    \/ UpdatePlaylists
    \/ RefreshMPD
    \/ SweeperCollect
    \/ SweeperSweep
    \/ ManagerStopLock
    \/ SessionCancel
    \/ SessionStopClose
    \/ SessionStopWait
    \/ CacheStop
    \/ ManagerStopReturn
    \/ LoopsExit
    \/ SweeperExit

SpecAbort == InitLate /\ [][NextAbort]_vars

----------------------------------------------------------------------------
(* SessionManager.GetOrCreateSession, called concurrently by the HTTP      *)
(* handlers.  The session a call creates is numbered by the count of       *)
(* StreamSession values constructed for its channel.                       *)

NumCallers == 2     \* concurrent callers of GetOrCreateSession
MaxCalls == 2       \* calls each caller makes

Callers == 1..NumCallers

\* sm.cfg.Channels holds ChannelID; "nochan" is an id it does not hold.
ConfiguredChannels == {ChannelID}
RequestedChannels == {ChannelID, "nochan"}

\* What FetchAndParseMPD can answer with: an MPD the session can start
\* from, one initializeState rejects (its primary set has timescale 0), or
\* an error.
GoodMPD == [sets |-> <<VideoSet>>, tl |-> <<InitialTimeline(VideoSet)>>]
TestMPDs ==
    { GoodMPD,
      [sets |-> <<[VideoSet EXCEPT !.timescale = 0]>>,
       tl |-> <<InitialTimeline(VideoSet)>>] }
NoMPD == [sets |-> <<>>, tl |-> <<>>]
FetchResults ==
    {[err |-> TRUE, mpd |-> NoMPD]} \cup {[err |-> FALSE, mpd |-> m] : m \in TestMPDs}

\* initializeState's error, "none" when it returns nil.
initializeState(mpd) ==
    IF Len(mpd.sets) = 0 THEN "no adaptation sets found in MPD"
    ELSE LET ok == {i \in 1..Len(mpd.sets) :
                       /\ mpd.sets[i].contentType = "video"
                       /\ \A j \in 1..Len(mpd.sets[i].reps) : ~mpd.sets[i].reps[j].trick}
             i == IF ok # {} THEN MinOf(ok) ELSE 1
         IN IF mpd.sets[i].timescale = 0
            THEN "primary adaptation set has a timescale of 0"
            ELSE IF Len(mpd.tl[i]) = 0
                 THEN "primary adaptation set has no timeline information"
                 ELSE NoValue

NoReturn == [kind |-> "none", sid |-> 0, why |-> ""]
ReturnSession(n) == [kind |-> "session", sid |-> n, why |-> ""]
ReturnError(why) == [kind |-> "error", sid |-> 0, why |-> why]

\* One caller: position in GetOrCreateSession, the channel asked for, the
\* MPD fetched, what the call returned and by which path, what the call
\* before it returned, and the number of calls made.
IdleGC == [pc |-> "idle", ch |-> "", mpd |-> NoMPD, ret |-> NoReturn, how |-> "",
           prev |-> NoReturn, calls |-> 0]

InitManager ==
    /\ smMutex = Free
    /\ sessions = <<>>
    /\ gc = [c \in Callers |-> IdleGC]
    /\ made = [ch \in RequestedChannels |-> 0]
    /\ started = {}
    /\ pools = <<>>

Returns(c, ret, how) ==
    [gc[c] EXCEPT !.pc = "done", !.ret = ret, !.how = how, !.mpd = NoMPD]

\* Lines 90-96: the lookup under the read lock; a session found is returned.
GCCall(c, ch) ==
    /\ gc[c].pc \in {"idle", "done"}
    /\ gc[c].calls < MaxCalls
    /\ smMutex = Free
    /\ LET call == [gc[c] EXCEPT !.ch = ch, !.calls = @ + 1, !.prev = gc[c].ret,
                                 !.ret = NoReturn, !.how = ""]
       IN gc' = [gc EXCEPT ![c] =
                    IF ch \in DOMAIN sessions
                    THEN [call EXCEPT !.pc = "done", !.ret = ReturnSession(sessions[ch]),
                                      !.how = "found"]
                    ELSE [call EXCEPT !.pc = "wantLock"]]
    /\ UNCHANGED <<smMutex, sessions, made, started, pools>>
    /\ UNCHANGED <<cacheVars, callerVars, poolVars, poolCallerVars, sessVars>>
    /\ UNCHANGED <<lifeVars, fnVars, accessVars>>

\* Line 98: sm.mutex.Lock().
GCLock(c) ==
    /\ gc[c].pc = "wantLock"
    /\ smMutex = Free
    /\ smMutex' = HeldBy(c)
    /\ gc' = [gc EXCEPT ![c].pc = "locked"]
    /\ UNCHANGED <<sessions, made, started, pools>>
    /\ UNCHANGED <<cacheVars, callerVars, poolVars, poolCallerVars, sessVars>>
    /\ UNCHANGED <<lifeVars, fnVars, accessVars>>

\* The second lookup with a slip: it is left out.
RecheckSkipped(map, ch) == FALSE

\* Line 100: the second lookup, now under the write lock.
RecheckFinds(map, ch) == ch \in DOMAIN map

\* Lines 100-116: a session stored meanwhile is returned; an id the
\* configuration does not hold is an error; both release the lock.
GCRecheck(c) ==
    /\ gc[c].pc = "locked"
    /\ LET ch == gc[c].ch
       IN IF RecheckFinds(sessions, ch)
          THEN /\ gc' = [gc EXCEPT ![c] =
                           Returns(c, ReturnSession(sessions[ch]), "found under lock")]
               /\ smMutex' = Free
          ELSE IF ch \notin ConfiguredChannels
               THEN /\ gc' = [gc EXCEPT ![c] =
                                Returns(c, ReturnError("not found"), "error")]
                    /\ smMutex' = Free
               ELSE /\ gc' = [gc EXCEPT ![c].pc = "fetch"]
                    /\ UNCHANGED smMutex
    /\ UNCHANGED <<sessions, made, started, pools>>
    /\ UNCHANGED <<cacheVars, callerVars, poolVars, poolCallerVars, sessVars>>
    /\ UNCHANGED <<lifeVars, fnVars, accessVars>>

\* Lines 118-121: FetchAndParseMPD answers, the write lock still held.
GCFetch(c) ==
    /\ gc[c].pc = "fetch"
    /\ \E res \in FetchResults :
          IF res.err
          THEN /\ gc' = [gc EXCEPT ![c] =
                           Returns(c, ReturnError("initial MPD fetch"), "error")]
               /\ smMutex' = Free
          ELSE /\ gc' = [gc EXCEPT ![c].pc = "init", ![c].mpd = res.mpd]
               /\ UNCHANGED smMutex
    /\ UNCHANGED <<sessions, made, started, pools>>
    /\ UNCHANGED <<cacheVars, callerVars, poolVars, poolCallerVars, sessVars>>
    /\ UNCHANGED <<lifeVars, fnVars, accessVars>>

\* The store with a slip: the session is stored before initializeState is
\* asked.
StoredRegardless(map, ch, n, err) == (ch :> n) @@ map

\* Lines 144-148: the session is stored only when initializeState returned
\* nil.
Stored(map, ch, n, err) ==
    IF err = NoValue THEN (ch :> n) @@ map ELSE map

\* Lines 123-148: the StreamSession value is built (with its downloader
\* pool and its ctx), initializeState runs, and the session is stored
\* unless it failed; on failure the call returns the error and nothing
\* else.
GCInit(c) ==
    /\ gc[c].pc = "init"
    /\ LET ch == gc[c].ch
           n == made[ch] + 1
           err == initializeState(gc[c].mpd)
       IN /\ made' = [made EXCEPT ![ch] = n]
          /\ pools' = (<<ch, n>> :> LivePool) @@ pools
          /\ sessions' = Stored(sessions, ch, n, err)
          /\ IF err # NoValue
             THEN /\ gc' = [gc EXCEPT ![c] = Returns(c, ReturnError(err), "error")]
                  /\ smMutex' = Free
             ELSE /\ gc' = [gc EXCEPT ![c].pc = "start"]
                  /\ UNCHANGED smMutex
    /\ UNCHANGED started
    /\ UNCHANGED <<cacheVars, callerVars, poolVars, poolCallerVars, sessVars>>
    /\ UNCHANGED <<lifeVars, fnVars, accessVars>>

\* Lines 146-149: newSession.Start() queues the init segments and starts
\* the four loops, the write lock still held; the session is returned.
GCStart(c) ==
    /\ gc[c].pc = "start"
    /\ LET ch == gc[c].ch
       IN /\ started' = started \cup {<<ch, made[ch]>>}
          /\ gc' = [gc EXCEPT ![c] = Returns(c, ReturnSession(made[ch]), "created")]
    /\ smMutex' = Free
    /\ UNCHANGED <<sessions, made, pools>>
    /\ UNCHANGED <<cacheVars, callerVars, poolVars, poolCallerVars, sessVars>>
    /\ UNCHANGED <<lifeVars, fnVars, accessVars>>

NextManager ==
    \/ \E c \in Callers, ch \in RequestedChannels : GCCall(c, ch)
    \/ \E c \in Callers : GCLock(c)
    \/ \E c \in Callers : GCRecheck(c)
    \/ \E c \in Callers : GCFetch(c)
    \/ \E c \in Callers : GCInit(c)
    \/ \E c \in Callers : GCStart(c)

InitManagerSpec ==
    /\ InitCacheVars
    /\ InitCallerVars
    /\ InitPoolVars
    /\ InitPoolCallerVars
    /\ InitSessVars(<<VideoSet>>)
    /\ InitLifeVars
    /\ InitManager
    /\ InitFnVars
    /\ InitAccessVars

SpecManager == InitManagerSpec /\ [][NextManager]_vars

----------------------------------------------------------------------------
(* The timeline functions and the selection applied to inputs: every       *)
(* SegmentTimeline of a few S elements whose t, where present, is not      *)
(* before the end of the elements before it (an absent t is 0), and every  *)
(* adaptation set of a few representations.                                *)

MaxT == 2           \* largest t attribute
MaxR == 1           \* largest r attribute
MaxTuples == 2      \* S elements per timeline
MaxP == 8           \* largest playhead
MaxReps == 2        \* representations per adaptation set
MaxBandwidth == 2   \* largest bandwidth attribute

Durations == {1, 2}

SeqsUpTo(S, n) == UNION {[1..k -> S] : k \in 0..n}

\* No S element with a t starts before the end of the elements before it.
InOrder(segs) ==
    \A j \in 2..Len(segs) :
        segs[j].t = 0 \/ segs[j].t >= EndCursor(SubSeq(segs, 1, j - 1), 1, 0)

TimelinesOf(maxR) ==
    {segs \in SeqsUpTo([t : 0..MaxT, d : Durations, r : 0..maxR], MaxTuples) :
        InOrder(segs)}

\* MergeTimelines applied to an old and a new timeline.
InitMerge ==
    /\ fin \in [old : TimelinesOf(0), new : TimelinesOf(0)]
    /\ fout = NotApplied

ApplyMerge ==
    /\ fout = NotApplied
    /\ fout' = Returned(MergeTimelines(fin.old, fin.new))
    /\ UNCHANGED fin
    /\ UNCHANGED <<cacheVars, callerVars, poolVars, poolCallerVars, sessVars>>
    /\ UNCHANGED <<lifeVars, mgrVars, accessVars>>

\* findSegmentTimeForPlayhead applied to a timeline and a playhead.
InitFind ==
    /\ fin \in [segs : TimelinesOf(MaxR), p : 0..MaxP]
    /\ fout = NotApplied

ApplyFind ==
    /\ fout = NotApplied
    /\ fout' = Returned(findSegmentTimeForPlayhead(fin.segs, fin.p))
    /\ UNCHANGED fin
    /\ UNCHANGED <<cacheVars, callerVars, poolVars, poolCallerVars, sessVars>>
    /\ UNCHANGED <<lifeVars, mgrVars, accessVars>>

\* selectRepresentations applied to an adaptation set, as the download
\* tick, downloadInitialSegments and GetMasterPlaylist each call it.
ContentTypes == {"video", "audio", "text", "image"}

TestSets ==
    [id : {"1"}, contentType : ContentTypes, timescale : {1},
     reps : SeqsUpTo([id : {"r"}, bandwidth : 0..MaxBandwidth, trick : BOOLEAN,
                      pto : {0}], MaxReps)]

InitSelect ==
    /\ fin \in TestSets
    /\ fout = NotApplied

\* GetMasterPlaylist: per content type, the selections of the sets of that
\* type that select something, in MPD order.
RECURSIVE MasterSelection(_, _, _)
MasterSelection(mpdSets, i, type) ==
    IF i > Len(mpdSets) THEN <<>>
    ELSE (IF mpdSets[i].contentType = type
          THEN selectRepresentations(mpdSets[i]) ELSE <<>>)
            \o MasterSelection(mpdSets, i + 1, type)

ApplySelect ==
    /\ fout = NotApplied
    /\ fout' = Returned([tick |-> selectRepresentations(fin),
                         init |-> selectRepresentations(fin),
                         master |-> MasterSelection(<<fin>>, 1, fin.contentType)])
    /\ UNCHANGED fin
    /\ UNCHANGED <<cacheVars, callerVars, poolVars, poolCallerVars, sessVars>>
    /\ UNCHANGED <<lifeVars, mgrVars, accessVars>>

InitRest ==
    /\ InitAccessVars
    /\ InitCacheVars
    /\ InitCallerVars
    /\ InitPoolVars
    /\ InitPoolCallerVars
    /\ InitSessVars(<<VideoSet>>)
    /\ InitLifeVars
    /\ InitMgrVars({ChannelID})

InitMergeSpec == InitRest /\ InitMerge
InitFindSpec == InitRest /\ InitFind
InitSelectSpec == InitRest /\ InitSelect

SpecMerge == InitMergeSpec /\ [][ApplyMerge]_vars
SpecFind == InitFindSpec /\ [][ApplyFind]_vars
SpecSelect == InitSelectSpec /\ [][ApplySelect]_vars

\* key.NewService applied to the channels of a configuration, and
\* GetKeyForChannel asked of the service it returns.
MaxChannels == 2    \* channels per configuration

ChannelIds == {"a", "b"}
NoKey == ""
TestChannels == SeqsUpTo([id : ChannelIds, key : {NoKey, "k"}], MaxChannels)

NoError == <<>>
DuplicateError(id) == <<"duplicate channel ID found in config", id>>

\* NewService: the loop over cfg.Channels from channel i on, with the map
\* built so far.
RECURSIVE NewServiceFrom(_, _, _)
NewServiceFrom(channels, i, keyMap) ==
    IF i > Len(channels) THEN [err |-> NoError, channelKeyMap |-> keyMap]
    ELSE IF Len(channels[i].key) > 0
    THEN IF channels[i].id \in DOMAIN keyMap
         THEN [err |-> DuplicateError(channels[i].id), channelKeyMap |-> <<>>]
         ELSE NewServiceFrom(channels, i + 1,
                             (channels[i].id :> channels[i].key) @@ keyMap)
    ELSE NewServiceFrom(channels, i + 1, keyMap)

NewService(channels) == NewServiceFrom(channels, 1, <<>>)

GetKeyForChannel(service, channelId) ==
    IF channelId \in DOMAIN service.channelKeyMap
    THEN [key |-> service.channelKeyMap[channelId], found |-> TRUE]
    ELSE [key |-> NoKey, found |-> FALSE]

InitKeyService ==
    /\ InitRest
    /\ fin \in [channels : TestChannels, ask : ChannelIds \cup {"c"}]
    /\ fout = NotApplied

ApplyNewService ==
    /\ fout = NotApplied
    /\ LET service == NewService(fin.channels)
       IN fout' = Returned(
              [err |-> service.err,
               got |-> IF service.err = NoError
                       THEN GetKeyForChannel(service, fin.ask)
                       ELSE [key |-> NoKey, found |-> FALSE]])
    /\ UNCHANGED fin
    /\ UNCHANGED <<cacheVars, callerVars, poolVars, poolCallerVars, sessVars>>
    /\ UNCHANGED <<lifeVars, mgrVars, accessVars>>

SpecKeyService == InitKeyService /\ [][ApplyNewService]_vars

\* The names the HTTP routes and the playlists exchange, as strings.
Digits == <<"0", "1", "2", "3", "4", "5", "6", "7", "8", "9">>

\* fmt.Sprintf("%d", n)
RECURSIVE Decimal(_)
Decimal(n) ==
    IF n < 10 THEN Digits[n + 1] ELSE Decimal(n \div 10) \o Digits[(n % 10) + 1]

\* strings.TrimSuffix
TrimSuffix(str, suffix) ==
    IF /\ Len(str) >= Len(suffix)
       /\ SubSeq(str, Len(str) - Len(suffix) + 1, Len(str)) = suffix
    THEN SubSeq(str, 1, Len(str) - Len(suffix))
    ELSE str

\* strings.Replace(str, old, new, 1): the first occurrence is replaced.
ReplaceFirst(str, old, new) ==
    LET at == {i \in 1..(Len(str) - Len(old) + 1) :
                  SubSeq(str, i, i + Len(old) - 1) = old}
    IN IF at = {} THEN str
       ELSE SubSeq(str, 1, MinOf(at) - 1) \o new
              \o SubSeq(str, MinOf(at) + Len(old), Len(str))

\* The last index of character c in str, 0 when there is none.
LastIndex(str, c) == MaxOf({0} \cup {i \in 1..Len(str) : SubSeq(str, i, i) = c})

\* path.Base of a path that does not end in a slash.
PathBase(str) ==
    IF str = "" THEN "." ELSE SubSeq(str, LastIndex(str, "/") + 1, Len(str))

\* path.Ext: from the last dot of the last element on.
PathExt(str) ==
    LET base == SubSeq(str, LastIndex(str, "/") + 1, Len(str))
    IN IF LastIndex(base, ".") = 0 THEN ""
       ELSE SubSeq(base, LastIndex(base, "."), Len(base))

\* GenerateMediaPlaylist: the URI of the EXT-X-MAP line.
HlsInitFilename(initialization, repId) ==
    LET initURL == ReplaceFirst(initialization, "$RepresentationID$", repId)
        base == PathBase(initURL)
    IN TrimSuffix(base, PathExt(base)) \o ".m4s"

\* GenerateMediaPlaylist: the URI of a segment line.
SegmentURI(segId) == segId \o ".m4s"

\* fmt.Sprintf("%s/%s/%s", channel, rep, id)
CacheKey(channelId, repId, id) == channelId \o "/" \o repId \o "/" \o id

\* handleSegment: the cache key looked up for a requested segment name.
handleSegment(channelId, repId, segmentName) ==
    CacheKey(channelId, repId, TrimSuffix(segmentName, ".m4s"))

InitTemplates ==
    {"init.m4s", "init.mp4", "init-$RepresentationID$.m4s",
     "$RepresentationID$/init.mp4"}

InitURIs ==
    /\ InitRest
    /\ fin \in [initialization : InitTemplates, rep : {"v1", "a1"}, time : 0..MaxP]
    /\ fout = NotApplied

\* What the session stores the init and the media segment under, and what
\* the segment route looks up for the URIs the playlist advertises.
ApplyURIs ==
    /\ fout = NotApplied
    /\ fout' = Returned(
          [initStored |-> CacheKey(ChannelID, fin.rep, "init"),
           initAsked |-> handleSegment(ChannelID, fin.rep,
                             HlsInitFilename(fin.initialization, fin.rep)),
           segStored |-> CacheKey(ChannelID, fin.rep, Decimal(fin.time)),
           segAsked |-> handleSegment(ChannelID, fin.rep,
                            SegmentURI(Decimal(fin.time)))])
    /\ UNCHANGED fin
    /\ UNCHANGED <<cacheVars, callerVars, poolVars, poolCallerVars, sessVars>>
    /\ UNCHANGED <<lifeVars, mgrVars, accessVars>>

SpecURIs == InitURIs /\ [][ApplyURIs]_vars

----------------------------------------------------------------------------
(* Properties                                                              *)

\* C3: immediately after one sweep completes, every key in the cache is a
\* member of the liveness set supplied for that sweep, and every entry whose
\* key is in that set and was cached before the sweep is still cached with
\* the same bytes.
C3_SweepKeepsExactlyLive ==
    [][(sweepPc = "collected" /\ sweepPc' = "idle") =>
          /\ DOMAIN cache' \subseteq activeKeys
          /\ \A k \in activeKeys \cap DOMAIN cache :
                k \in DOMAIN cache' /\ cache'[k] = cache[k]]_vars

\* The S6 scenario after its sweep: a1 and a2 live and still cached, the
\* third entry evicted.
C3_Witness ==
    /\ sweepPc = "idle"
    /\ DOMAIN cache = {SegKey("a", 1), SegKey("a", 2)}
    /\ DOMAIN setLog = TestKeys
    /\ sweptKeys = TestKeys

\* C4: with no sweep since the key was last Set, Get(k) returns found with
\* the value of the most recent completed Set(k, .); Get of a key never Set
\* returns not-found.
C4_GetSeesLatestSet ==
    (lastGet # NoGet /\ ~lastGet.swept) =>
        /\ lastGet.found = lastGet.expectFound
        /\ lastGet.found => lastGet.data = lastGet.expectData

\* A Get that returned the second value written to a key holding another
\* entry's worth of history: the key was Set, then read back as "d2" while
\* a different key still holds "d1".
C4_Witness ==
    /\ lastGet.key = SegKey("a", 1)
    /\ lastGet.found
    /\ lastGet.data = "d2"
    /\ ~lastGet.swept
    /\ SegKey("a", 2) \in DOMAIN cache
    /\ cache[SegKey("a", 2)] = "d1"

\* Every DownloadResult that exists: held by a worker about to send it, or
\* buffered in the sink.
AllResults ==
    {worker[w].result : w \in {x \in Workers : worker[x].st = "send"}}
        \cup {resultsChan[i] : i \in 1..Len(resultsChan)}

AllFail(tr) == \A i \in 1..Len(tr) : tr[i] = "fail"

FirstOkAt(tr, k) ==
    /\ k \in 1..Len(tr)
    /\ tr[k] = "ok"
    /\ \A i \in 1..(k - 1) : tr[i] = "fail"

AttemptContract(r) ==
    /\ Len(r.trace) <= 3
    /\ \A k \in 1..Len(r.trace) :
          FirstOkAt(r.trace, k) =>
              /\ Len(r.trace) = k
              /\ r.err = NoErr
              /\ r.data = Body
    /\ AllFail(r.trace) =>
          /\ Len(r.trace) = 3
          /\ r.err.kind = "exhausted"
          /\ r.err.attempts = 3
          /\ r.data = NoData

\* C9 as stated: for any task, at most 3 HTTP attempts; exactly k when the
\* first success is attempt k (body, no error); exactly 3 when no attempt
\* succeeds, with the 'after 3 attempts' error and no data.
C9_AsStated ==
    \A r \in AllResults : AttemptContract(r)

\* C9 amended: the attempt contract holds for every task whose request can
\* be built; a task whose URL does not parse makes no attempt at all and
\* yields the 'failed to create request' error with no data.
C9_AttemptContract ==
    \A r \in AllResults :
        /\ r.task.url.valid => AttemptContract(r)
        /\ ~r.task.url.valid =>
              /\ r.trace = <<>>
              /\ r.err.kind = "create_request"
              /\ r.data = NoData

\* A worker holds a result obtained on the third attempt while the sink
\* holds one that failed three times.
C9_Witness ==
    /\ \E w \in Workers :
          /\ worker[w].st = "send"
          /\ worker[w].result.trace = <<"fail", "fail", "ok">>
          /\ worker[w].result.data = Body
    /\ \E i \in 1..Len(resultsChan) :
          /\ resultsChan[i].trace = <<"fail", "fail", "fail">>
          /\ resultsChan[i].err.kind = "exhausted"

\* Results produced so far for a task: received by the caller or buffered
\* in the sink.
Produced(id) ==
    delivered[id]
        + Cardinality({i \in 1..Len(resultsChan) : resultsChan[i].task.id = id})

\* C10: every task accepted by QueueDownload eventually has exactly one
\* result on its sink, never two, also when it was still queued when Stop
\* closed the queue; Stop returns only after every worker has exited.
C10_ExactlyOneResult ==
    /\ \A id \in TestTaskIds : (id \in submitted) ~> [](Produced(id) = 1)
    /\ [](\A id \in TestTaskIds : Produced(id) <= 1)
    /\ [](stopPc = "returned" => \A w \in Workers : worker[w].st = "exited")

\* Stop was called with tasks still queued, has returned, and the caller
\* holds exactly one result for each of the three tasks.
C10_Witness ==
    /\ stopPc = "returned"
    /\ stopBacklog > 0
    /\ submitted = TestTaskIds
    /\ \A id \in TestTaskIds : delivered[id] = 1

----------------------------------------------------------------------------
(* The stream session: playlists, window, playhead.                        *)

\* The segment ids a published playlist lists, in order.
PlaylistIds(pl) == [i \in 1..Len(pl.segments) |-> pl.segments[i].id]

IsSuffix(s, h) ==
    /\ Len(s) <= Len(h)
    /\ s = SubSeq(h, Len(h) - Len(s) + 1, Len(h))

\* C1: in every reachable state every segment listed in a published media
\* playlist has its key <channel>/<rep>/<t> in the byte cache.
C1_PublishedSegmentsCached ==
    \A r \in DOMAIN playlistCache :
        \A i \in 1..Len(playlistCache[r].segments) :
            SegKey(r, playlistCache[r].segments[i].id) \in DOMAIN cache

\* C2: zero false eviction: no step deletes a cache entry whose key is, at
\* the moment of deletion, the key of a segment in a window or the init key
\* of a representation of the session's MPD.
C2_NoFalseEviction ==
    [][\A k \in (DOMAIN cache) \ (DOMAIN cache') :
           k \notin GetAllActiveSegmentKeys]_vars

\* C5: the playhead never decreases: in every step of the started session,
\* whatever loop takes it, currentTargetTime' >= currentTargetTime.
C5_PlayheadMonotone ==
    [][currentTargetTime' >= currentTargetTime]_vars

\* The playhead has advanced over two ticks, with a refresh merged into the
\* timeline, a segment ingested and a playlist published in between.
C5_Witness ==
    /\ ticks = MaxTicks
    /\ dl.pc = "idle"
    /\ currentTargetTime > InitialPlayhead(InitialTimeline(VideoSet))
    /\ timeline[1] # InitialTimeline(VideoSet)
    /\ "v1" \in DOMAIN playlistCache
    /\ Len(history["v1"]) > 0

\* C6: in every reachable state the window of every representation holds at
\* most playlistLiveSegments + 2 segments.
C6_WindowBounded ==
    \A r \in AllRepIds : Len(availableSegments[r]) <= playlistLiveSegments + 2

\* One more segment than the window holds has been appended: the window is
\* full and its oldest segment has been dropped.
C6_Witness ==
    \E r \in AllRepIds :
        /\ Len(availableSegments[r]) = playlistLiveSegments + 2
        /\ Len(history[r]) = playlistLiveSegments + 3
        /\ mediaSequence[r] = 1

\* C7: in every reachable state the segments of a window appear in order of
\* strictly increasing start time.
C7_WindowIncreasing ==
    \A r \in AllRepIds :
        \A i \in 1..(Len(availableSegments[r]) - 1) :
            availableSegments[r][i].time < availableSegments[r][i + 1].time

\* C8 as stated: in every reachable state the ids of a published playlist
\* are a contiguous suffix of the history of appends so far.
C8_AsStated ==
    \A r \in DOMAIN playlistCache :
        IsSuffix(PlaylistIds(playlistCache[r]), history[r])

\* C8: a playlist is, in the state it is published in, a contiguous suffix
\* of the history of appends so far; in every later state it is a contiguous
\* suffix of a prefix of the history, that is a contiguous run of it.
C8_SuffixWhenPublished ==
    /\ [](\A r \in DOMAIN playlistCache :
            \E n \in 0..Len(history[r]) :
                IsSuffix(PlaylistIds(playlistCache[r]), SubSeq(history[r], 1, n)))
    /\ [][UpdatePlaylists =>
            \A r \in DOMAIN playlistCache' :
                Len(availableSegments[r]) > 0 =>
                    IsSuffix(PlaylistIds(playlistCache'[r]), history'[r])]_vars

\* A playlist published after the window dropped its oldest segment lists
\* the last playlistLiveSegments of playlistLiveSegments + 3 appends.
C8_Witness ==
    /\ "v1" \in DOMAIN playlistCache
    /\ playlistCache["v1"].mediaSequence = 1
    /\ Len(playlistCache["v1"].segments) = playlistLiveSegments
    /\ Len(history["v1"]) = playlistLiveSegments + 3
    /\ IsSuffix(PlaylistIds(playlistCache["v1"]), history["v1"])

----------------------------------------------------------------------------
(* Shutdown.                                                               *)

\* C11: during and after shutdown an enqueue never aborts the process: no
\* QueueDownload of a download tick panics, whatever the interleaving with
\* Stop.
C11_EnqueueNeverAborts == ~panicked

\* C12: once the session's ctx is cancelled, the download loop, the publish
\* loop, the refresh loop and the result loop all eventually terminate (a
\* process that has aborted counts as having terminated them).
C12_LoopsTerminate ==
    Cancelled ~> (\/ panicked
                  \/ /\ \A l \in Loops : loops[l] = "exited"
                     /\ rl.pc = "exited")

\* C13: once SessionManager.Stop is called it eventually returns, with the
\* session's ctx cancelled, the pool stopped and every worker exited, and
\* the sweeper eventually stops.
C13_ManagerStopReturns ==
    /\ (mstop # "idle") ~> (mstop = "returned")
    /\ [](mstop = "returned" =>
            /\ Cancelled
            /\ stopPc = "returned"
            /\ \A w \in Workers : worker[w].st = "exited")
    /\ (mstop = "returned") ~> (sweepPc = "exited")

----------------------------------------------------------------------------
(* The session manager.                                                    *)

SessionReturns(ch) ==
    {gc[c].ret : c \in {x \in Callers : /\ gc[x].pc = "done"
                                        /\ gc[x].ch = ch
                                        /\ gc[x].ret.kind = "session"}}

\* C14: for every channel at most one session is ever constructed-and-stored
\* and started, every call that succeeded returned that session, and it is
\* the one in the map.
C14_OneSessionPerChannel ==
    \A ch \in RequestedChannels :
        /\ Cardinality({x \in started : x[1] = ch}) <= 1
        /\ Cardinality(SessionReturns(ch)) <= 1
        /\ \A r \in SessionReturns(ch) :
              /\ ch \in DOMAIN sessions
              /\ sessions[ch] = r.sid
              /\ <<ch, r.sid>> \in started

\* Two callers found no session under the read lock; one created it, the
\* other found it under the write lock, and both hold the same session.
C14_Witness ==
    \E c, d \in Callers :
        /\ gc[c].pc = "done" /\ gc[c].how = "created"
        /\ gc[d].pc = "done" /\ gc[d].how = "found under lock"
        /\ gc[c].ch = gc[d].ch
        /\ gc[c].ret = gc[d].ret

\* C15: a call that returns an error leaves the map and the started sessions
\* as they were when it began to hold the lock, with no entry for its
\* channel; and a call for a configured channel that finds no session under
\* the write lock goes on to fetch the MPD, whatever failed before.
C15_FailedCreationLeavesNoTrace ==
    /\ [][\A c \in Callers :
            (gc[c].pc # "done" /\ gc'[c].pc = "done" /\ gc'[c].ret.kind = "error")
               => /\ sessions' = sessions
                  /\ started' = started
                  /\ gc'[c].ch \notin DOMAIN sessions']_vars
    /\ [][\A c \in Callers :
            (/\ gc[c].pc = "locked" /\ gc'[c].pc # "locked"
             /\ gc[c].ch \in ConfiguredChannels
             /\ gc[c].ch \notin DOMAIN sessions)
               => gc'[c].pc = "fetch"]_vars

\* A caller whose first call failed in initializeState got the session from
\* its second call, which created it.
C15_Witness ==
    \E c \in Callers :
        /\ gc[c].pc = "done"
        /\ gc[c].prev.kind = "error"
        /\ gc[c].prev.why = "primary adaptation set has a timescale of 0"
        /\ gc[c].how = "created"
        /\ made[gc[c].ch] = 2

\* C16: no task holds the manager's lock while it waits for a network call
\* (the initial MPD fetch) or sends on a channel (queueing the init
\* segments in Start).
C16_NoLockAcrossBlockingCall ==
    \A c \in Callers : gc[c].pc \in {"fetch", "start"} => smMutex # HeldBy(c)

----------------------------------------------------------------------------
(* The timeline functions and the selection.                               *)

\* What the applied function returned.
Result == fout[1]

\* The tuples of a timeline with start time k.
TuplesAt(segs, k) == {segs[i] : i \in {j \in 1..Len(segs) : segs[j].t = k}}

\* C17: merging a timeline with itself gives it back, and for every start
\* time present in both the old and the new timeline the merged tuple at
\* that time is the new timeline's.
C17_MergeIdempotentNewWins ==
    fout # NotApplied =>
        /\ fin.old = fin.new => Result = fin.old
        /\ \A k \in 0..MaxT :
              (TuplesAt(fin.old, k) # {} /\ TuplesAt(fin.new, k) # {})
                 => /\ Cardinality(TuplesAt(Result, k)) = 1
                    /\ TuplesAt(Result, k) \subseteq TuplesAt(fin.new, k)

\* The expanded segments of a timeline, <<start, duration>>, in order.
RECURSIVE Expand(_, _, _)
Expand(segs, i, cur) ==
    IF i > Len(segs) THEN <<>>
    ELSE LET c0 == IF segs[i].t > 0 THEN segs[i].t ELSE cur
         IN [j \in 1..(segs[i].r + 1) |-> <<c0 + (j - 1) * segs[i].d, segs[i].d>>]
              \o Expand(segs, i + 1, c0 + (segs[i].r + 1) * segs[i].d)

Expanded(segs) == Expand(segs, 1, 0)

\* C18: for a non-empty timeline and a playhead before its end, the answer
\* is an expanded segment whose interval [start, start + duration) holds the
\* playhead.
C18_FoundSegmentHoldsPlayhead ==
    (fout # NotApplied /\ fin.segs # <<>> /\ fin.p < EndCursor(fin.segs, 1, 0)) =>
        /\ \E i \in 1..Len(Expanded(fin.segs)) : Expanded(fin.segs)[i] = Result
        /\ Result[1] <= fin.p
        /\ fin.p < Result[1] + Result[2]

\* C19: for a non-empty timeline and a playhead at or past its end, the
\* answer is the last expanded segment; <<0, 0>> is the answer only for an
\* empty timeline.
C19_PastEndGivesLastSegment ==
    fout # NotApplied =>
        /\ (fin.segs # <<>> /\ fin.p >= EndCursor(fin.segs, 1, 0))
              => Result = Expanded(fin.segs)[Len(Expanded(fin.segs))]
        /\ Result = <<0, 0>> => fin.segs = <<>>

\* The representations of a set that are not TrickMode.
Plain(as) == {i \in 1..Len(as.reps) : ~as.reps[i].trick}

\* C20: a video set selects exactly one representation, a non-TrickMode one
\* of the highest bandwidth among those, and none only if all are TrickMode;
\* an audio or text set selects all; any other type none; and the tick, the
\* init-segment queueing and the master playlist select the same.
C20_SelectionContract ==
    fout # NotApplied =>
        /\ Result.tick = Result.init
        /\ Result.tick = Result.master
        /\ fin.contentType = "video" =>
              IF Plain(fin) = {} THEN Result.tick = <<>>
              ELSE /\ Len(Result.tick) = 1
                   /\ \E i \in Plain(fin) :
                         /\ Result.tick[1] = fin.reps[i]
                         /\ \A j \in Plain(fin) :
                               fin.reps[j].bandwidth <= fin.reps[i].bandwidth
        /\ fin.contentType \in {"audio", "text"} => Result.tick = fin.reps
        /\ fin.contentType \notin {"video", "audio", "text"} => Result.tick = <<>>

----------------------------------------------------------------------------
(* The session's playlists, ticks and timelines.                           *)

\* C24: the media sequence of a published playlist is the number of
\* segments of the representation's append history that precede the first
\* segment the playlist lists.
C24_MediaSequenceNamesFirstSegment ==
    \A r \in DOMAIN playlistCache :
        LET pl == playlistCache[r]
        IN Len(pl.segments) > 0 =>
              /\ pl.mediaSequence + 1 \in 1..Len(history[r])
              /\ history[r][pl.mediaSequence + 1] = pl.segments[1].id

\* The number of tasks with cache key k that are queued, held by a worker,
\* or waiting in the result sink.
InFlight(k) ==
    Cardinality({i \in 1..Len(taskQueue) : taskQueue[i].id = k})
      + Cardinality({w \in Workers : worker[w].st \in {"busy", "send"}
                                       /\ worker[w].task.id = k})
      + Cardinality({i \in 1..Len(resultsChan) : resultsChan[i].task.id = k})

\* C25: the download tick queues a media segment only when its key is
\* neither in the cache nor in flight, and no key ever has two tasks in
\* flight.
C25_NoDuplicateEnqueue ==
    /\ [][(dl.pc = "send" /\ ~dl.task.isInit /\ taskQueue' = Append(taskQueue, dl.task))
             => /\ dl.task.id \notin DOMAIN cache
                /\ InFlight(dl.task.id) = 0]_vars
    /\ [](\A r \in AllRepIds, i \in 1..Len(timeline) :
            \A seg \in {Expanded(timeline[i])[j] : j \in 1..Len(Expanded(timeline[i]))} :
                InFlight(SegKey(r, seg[1])) <= 1)

\* C26: a tick moves the playhead only when the segment it found in the
\* anchoring set holds the playhead the tick started from, converted to the
\* set's timescale.
C26_AdvanceOnlyOnSegmentAtPlayhead ==
    [][currentTargetTime' # currentTargetTime =>
          LET p == TargetTimeForRep(dl.targetTime, sets[PrimarySet])
          IN /\ dl.segT <= p
             /\ p < dl.segT + dl.segD
             /\ currentTargetTime' = currentTargetTime + dl.segD]_vars

\* A timeline with every tuple's start time written out.
RECURSIVE Materialized(_, _, _)
Materialized(segs, i, cur) ==
    IF i > Len(segs) THEN <<>>
    ELSE LET c0 == IF segs[i].t > 0 THEN segs[i].t ELSE cur
         IN <<[segs[i] EXCEPT !.t = c0]>>
              \o Materialized(segs, i + 1, c0 + (segs[i].r + 1) * segs[i].d)

StartsOf(segs) == {segs[i].t : i \in 1..Len(segs)}

\* C29: the merge holds every tuple of the new timeline and every old tuple
\* whose start time is not the start of a new tuple, each under the start
\* time its own timeline gives it, in strictly ascending order of start.
C29_MergeIsUnionByStart ==
    fout # NotApplied =>
        LET old == Materialized(fin.old, 1, 0)
            new == Materialized(fin.new, 1, 0)
            kept == {old[i] : i \in {j \in 1..Len(old) : old[j].t \notin StartsOf(new)}}
            got == Materialized(Result, 1, 0)
        IN /\ {got[i] : i \in 1..Len(got)} = kept \cup {new[i] : i \in 1..Len(new)}
           /\ \A i \in 1..(Len(got) - 1) : got[i].t < got[i + 1].t

\* C30: the segments of the session's timelines, expanded, start at strictly
\* increasing times and do not overlap.
C30_MergedTimelineIncreasing ==
    \A i \in 1..Len(timeline) :
        LET e == Expanded(timeline[i])
        IN \A j \in 1..(Len(e) - 1) : e[j][1] + e[j][2] <= e[j + 1][1]

\* The ids that two channels of a configuration share.
DuplicateIds(channels) ==
    {channels[i].id : i \in {j \in 1..Len(channels) :
                                \E k \in 1..Len(channels) :
                                    k # j /\ channels[k].id = channels[j].id}}

\* C23: NewService fails with the error naming a shared id whenever two
\* channels share an id, with or without keys; without shared ids it
\* succeeds, and GetKeyForChannel finds nothing for an id no channel has.
C23_DuplicateIdsRejected ==
    fout # NotApplied =>
        IF DuplicateIds(fin.channels) # {}
        THEN \E id \in DuplicateIds(fin.channels) : Result.err = DuplicateError(id)
        ELSE /\ Result.err = NoError
             /\ (\A i \in 1..Len(fin.channels) : fin.channels[i].id # fin.ask)
                    => ~Result.got.found

\* C28: the EXT-X-MAP URI of a playlist, looked up by the segment route,
\* gives the key the init segment is cached under, and every segment line
\* gives the key its media segment is cached under.
C28_AdvertisedURIsResolve ==
    fout # NotApplied =>
        /\ Result.initAsked = Result.initStored
        /\ Result.segAsked = Result.segStored

----------------------------------------------------------------------------
(* Readers, refreshes and the session lock.                                *)

\* C21: only updatePlaylists writes the playlist cache and it never removes
\* a representation from it; GetMediaPlaylist fails for a representation
\* exactly when the cache has no playlist for it, and otherwise returns the
\* playlist the cache holds, the one published last.
C21_PlaylistReadiness ==
    /\ [][playlistCache' # playlistCache => UpdatePlaylists]_vars
    /\ [][\A r \in DOMAIN playlistCache : r \in DOMAIN playlistCache']_vars
    /\ [][GetMediaPlaylistCall =>
             /\ lastPlaylist'.found <=> lastPlaylist'.rep \in DOMAIN playlistCache
             /\ lastPlaylist'.found =>
                   lastPlaylist'.playlist = playlistCache[lastPlaylist'.rep]]_vars

\* A reader got v1's playlist, with segments in it, while v2, for which
\* nothing was downloaded, still has none.
C21_Witness ==
    /\ lastPlaylist.rep = "v1"
    /\ lastPlaylist.found
    /\ Len(lastPlaylist.playlist.segments) > 0
    /\ "v2" \notin DOMAIN playlistCache

\* C22: a refresh whose fetch failed returns without touching the timelines,
\* the base URL, the playhead, the windows, the media sequences, the
\* playlists or the loops; a failed download result is dropped without
\* touching the cache, the windows, the media sequences or the loops.
C22_FailuresKeepLastGoodState ==
    /\ [][(rf.pc = "fetched" /\ rf.last = "failed" /\ rf' # rf) =>
             /\ rf'.pc = "idle"
             /\ UNCHANGED <<sets, timeline, baseURL, currentTargetTime,
                            availableSegments, mediaSequence, playlistCache,
                            loops, panicked, sessMutex>>]_vars
    /\ [][(/\ rl.pc = "recv"
           /\ resultsChan # <<>>
           /\ resultsChan' = Tail(resultsChan)
           /\ Head(resultsChan).err # NoErr) =>
             /\ rl' = rl
             /\ UNCHANGED <<cache, availableSegments, mediaSequence,
                            loops, panicked>>]_vars

\* A refresh has failed and returned after an earlier one had moved the
\* base URL, a failed download result is at the head of the sink, and every
\* loop is running.
C22_Witness ==
    /\ rf.pc = "idle"
    /\ rf.last = "failed"
    /\ baseURL # FirstBaseURL
    /\ resultsChan # <<>>
    /\ Head(resultsChan).err # NoErr
    /\ \A l \in Loops : loops[l] = "running"
    /\ ~panicked

\* C27: the download tick reads a set's timeline and the base URL, without
\* the lock and through the session's own MPD object, only while refreshMPD
\* does not hold the write lock it writes them under.
C27_NoReadDuringRefreshWrite ==
    [][(dl.pc \in {"set", "rep"} /\ dl' # dl) => sessMutex # HeldByRefresh]_vars


----------------------------------------------------------------------------
(* Downloads, sweeps and windows of the running session.                   *)

\* C31: once Session.Stop has cancelled the session's ctx, no worker starts
\* another attempt, and an attempt that was in progress ends as a failure
\* after which the download gives up (it is not retried and does not
\* deliver a body).
C31_CancelAbortsDownloads ==
    [][Cancelled =>
          \A w \in Workers :
              /\ ~(worker[w].st = "busy" /\ worker'[w].st = "request")
              /\ (worker[w].st = "request" /\ worker'[w].st # "request") =>
                     /\ worker'[w].st = "send"
                     /\ worker'[w].result.data = NoData]_vars

\* C32: whenever the sweeper obtains the liveness set, the set holds, for
\* every representation that has a published playlist, the key of every
\* segment the playlist lists and the representation's init key.
C32_LivenessCoversPlaylists ==
    [][(sweepPc = "idle" /\ sweepPc' = "collected") =>
          \A r \in DOMAIN playlistCache :
              /\ InitKey(r) \in activeKeys'
              /\ \A i \in 1..Len(playlistCache[r].segments) :
                     SegKey(r, playlistCache[r].segments[i].id) \in activeKeys']_vars

\* C33: no window ever holds two entries with the same id; a successful
\* media result whose id is already in the window of its representation is
\* written to the cache and leaves the window and the media sequence as
\* they were.
C33_NoDuplicateInWindow ==
    /\ [](\A r \in AllRepIds :
            \A i, j \in 1..Len(availableSegments[r]) :
                availableSegments[r][i].id = availableSegments[r][j].id => i = j)
    /\ [][(/\ rl.pc = "append"
           /\ rl'.pc # "append"
           /\ found(availableSegments[rl.result.task.rep], rl.result.task.time)) =>
              UNCHANGED <<availableSegments, mediaSequence>>]_vars
    /\ [][(rl.pc = "recv" /\ rl'.pc = "append") =>
              /\ rl'.result.task.id \in DOMAIN cache'
              /\ cache'[rl'.result.task.id] = rl'.result.data]_vars

\* The result loop holds a second successful result for segment 16 of v1,
\* already written to the cache, while the window lists 16.
C33_Witness ==
    /\ rl.pc = "append"
    /\ rl.result.task.rep = "v1"
    /\ rl.result.task.time = 16
    /\ found(availableSegments["v1"], 16)
    /\ Len(availableSegments["v1"]) = playlistLiveSegments + 2
    /\ cache[SegKey("v1", 16)] = Body

\* C34: the media sequence of a representation never decreases, changes only
\* when the result loop appends, and always equals the number of segments
\* dropped from the front of the window: the number appended minus the
\* number the window holds (0 before the first drop).
C34_MediaSequenceCountsDrops ==
    /\ [](\A r \in AllRepIds :
            mediaSequence[r] = Len(history[r]) - Len(availableSegments[r]))
    /\ [][\A r \in AllRepIds : mediaSequence'[r] >= mediaSequence[r]]_vars
    /\ [][mediaSequence' # mediaSequence =>
              /\ rl.pc = "append"
              /\ rl' = IdleRL
              /\ \E r \in AllRepIds :
                     /\ mediaSequence' = [mediaSequence EXCEPT ![r] = @ + 1]
                     /\ availableSegments'[r] # <<>>
                     /\ availableSegments'[r][1] = availableSegments[r][2]]_vars

\* Segment 2, the oldest of v1's window, has been dropped for the eighth
\* segment appended, and the media sequence has gone from 0 to 1.
C34_Witness ==
    /\ mediaSequence["v1"] = 1
    /\ Len(history["v1"]) = playlistLiveSegments + 3
    /\ history["v1"][1] = 2
    /\ availableSegments["v1"][1].id = 4

\* C35: a refresh that merges leaves the adaptation sets with their
\* representations, the playhead, the windows, the media sequences and the
\* playlists as they were and adds no timeline; the timeline of a set whose
\* id a set of the new MPD carries becomes the merge of its old timeline
\* and that set's, and every other timeline stays as it was.
C35_RefreshFrame ==
    [][(rf.pc = "merging" /\ rf'.pc = "idle") =>
          /\ UNCHANGED <<sets, currentTargetTime, availableSegments,
                         mediaSequence, playlistCache>>
          /\ DOMAIN timeline' = DOMAIN timeline
          /\ \A i \in SetIdx :
                 LET matches == {j \in 1..Len(rf.mpd) : rf.mpd[j].id = sets[i].id}
                 IN IF matches = {}
                    THEN timeline'[i] = timeline[i]
                    ELSE \E j \in matches :
                            timeline'[i] =
                               MergeTimelines(timeline[i], rf.mpd[j].timeline)]_vars

\* C36: against an origin that eventually serves every segment, the init
\* segment of every selected representation is eventually in the cache.
C36_InitSegmentsEventuallyCached ==
    <>(\A i \in 1..Len(SelectedReps) : InitKey(SelectedReps[i].id) \in DOMAIN cache)

\* C37: with the download ticker firing, the playhead eventually moves
\* beyond the point initializeState put it at.
C37_PlayheadEventuallyAdvances ==
    <>(currentTargetTime > InitialPlayhead(InitialTimeline(sets[PrimarySet])))

\* C38: a session that was constructed but is neither in the manager's map
\* nor in the hands of a call still running has no live worker goroutine
\* and a cancelled ctx.
C38_DiscardedSessionHoldsNothing ==
    \A s \in DOMAIN pools :
        (/\ ~(s[1] \in DOMAIN sessions /\ sessions[s[1]] = s[2])
         /\ \A c \in Callers :
                ~(gc[c].pc = "start" /\ gc[c].ch = s[1] /\ made[s[1]] = s[2]))
            => /\ pools[s].workers = "exited"
               /\ pools[s].ctx = "cancelled"
\* The ids of the representations selected from the video adaptation set,
\* and the start times a media segment of the modelled session can have.
VideoRepIds ==
    {selectRepresentations(VideoSet)[j].id :
        j \in 1..Len(selectRepresentations(VideoSet))}

MediaTimes == 0..MaxP

\* Worker w holds the result of a successful download of the media segment
\* of representation r that starts at t.
Downloaded(w, r, t) ==
    /\ worker[w].st = "send"
    /\ worker[w].result.err = NoErr
    /\ ~worker[w].result.task.isInit
    /\ worker[w].result.task.rep = r
    /\ worker[w].result.task.time = t

\* Some segment that starts at t has been appended to the window of r.
Appended(r, t) ==
    \E i \in 1..Len(history[r]) : history[r][i] = t

\* C39: in a session that is not stopped, with the workers, the result loop
\* and the playlist loop scheduled fairly, a successful download of a media
\* segment of a selected representation leads to a state where a segment with that
\* start time has been appended to the representation's window and
\* GetMediaPlaylist finds a playlist for the representation; and the step
\* by which the result loop is done with a successful media result leaves
\* a segment with that start time in the window.
C39_DownloadReachesPlaylist ==
    /\ \A r \in VideoRepIds, t \in MediaTimes :
          (\E w \in Workers : Downloaded(w, r, t))
              ~> (Appended(r, t) /\ GetMediaPlaylist(playlistCache, r).found)
    /\ [][ResultAppend =>
              found(availableSegments'[rl.result.task.rep], rl.result.task.time)]_vars

\* Both segments of the two ticks have been downloaded and appended, and
\* the playlist of the representation has been published since.
C39_Witness ==
    /\ Len(history["v1"]) = MaxTicks
    /\ GetMediaPlaylist(playlistCache, "v1").found
    /\ Len(playlistCache["v1"].segments) = MaxTicks

----------------------------------------------------------------------------
(* hls.GenerateMediaPlaylist applied to the MPDs a session can hold, for    *)
(* every representation of each and every list of up to                    *)
(* playlistLiveSegments consecutive segments.  Durations are in ticks; an   *)
(* EXTINF value is kept in thousandths of a second, the three decimals     *)
(* "%.3f" prints (for the timescales 1 and 2 the quotient is exact).        *)

PlaylistMPDs == {<<VideoSet>>, <<VideoSet, AudioSet>>, <<AudioSet, VideoSet>>}

\* The segments of the given durations, one after the other from 0.
RECURSIVE StartOf(_, _)
StartOf(ds, i) == IF i = 1 THEN 0 ELSE StartOf(ds, i - 1) + ds[i - 1]

SegmentsOf(ds) ==
    [i \in 1..Len(ds) |-> [id |-> StartOf(ds, i), time |-> StartOf(ds, i),
                           duration |-> ds[i]]]

PlaylistInputs ==
    UNION {UNION {{[mpd |-> m, mediaType |-> m[i].contentType,
                    repId |-> m[i].reps[j].id, segs |-> SegmentsOf(ds)] :
                      j \in 1..Len(m[i].reps),
                      ds \in SeqsUpTo(Durations, playlistLiveSegments)} :
                  i \in 1..Len(m)} :
           m \in PlaylistMPDs}

InitPlaylist ==
    /\ fin \in PlaylistInputs
    /\ fout = NotApplied

\* GenerateMediaPlaylist, "Find the target representation": the first set
\* of the media type that has a representation with the id; 0 for none.
TargetSet(mpdSets, mediaType, repId) ==
    LET hits == {i \in 1..Len(mpdSets) :
                    /\ mpdSets[i].contentType = mediaType
                    /\ \E j \in 1..Len(mpdSets[i].reps) :
                          mpdSets[i].reps[j].id = repId}
    IN IF hits = {} THEN 0 ELSE MinOf(hits)

\* GenerateMediaPlaylist, the loop over availableSegments: "timescale :=
\* float64(mpd.Periods[0].Sets[0].SegmentTemplate.Timescale)" and
\* "#EXTINF:%.3f," of float64(seg.Duration) / timescale.
EXTINF(mpdSets, seg) ==
    (seg.duration * 1000) \div mpdSets[1].timescale

\* GenerateMediaPlaylist: an error when the representation is not found,
\* else per listed segment its EXTINF value and its URI "<id>.m4s".
MediaPlaylistEntries(mpdSets, mediaType, repId, seq, segs) ==
    IF TargetSet(mpdSets, mediaType, repId) = 0
    THEN [err |-> TRUE, mediaSequence |-> 0, extinf |-> <<>>, uri |-> <<>>]
    ELSE [err |-> FALSE, mediaSequence |-> seq,
          extinf |-> [i \in 1..Len(segs) |-> EXTINF(mpdSets, segs[i])],
          uri |-> [i \in 1..Len(segs) |-> segs[i].id]]

ApplyGenerate ==
    /\ fout = NotApplied
    /\ fout' = Returned(MediaPlaylistEntries(fin.mpd, fin.mediaType, fin.repId,
                                             0, fin.segs))
    /\ UNCHANGED fin
    /\ UNCHANGED <<cacheVars, callerVars, poolVars, poolCallerVars, sessVars>>
    /\ UNCHANGED <<lifeVars, mgrVars, accessVars>>

InitPlaylistSpec == InitRest /\ InitPlaylist

SpecPlaylist == InitPlaylistSpec /\ [][ApplyGenerate]_vars

\* C40: in the media playlist generated for a representation of the MPD,
\* the EXTINF value of every listed segment is the segment's duration in
\* ticks divided by the timescale of the adaptation set that contains the
\* representation, whichever place that set has in the MPD.
C40_ExtinfUsesOwnTimescale ==
    fout # NotApplied =>
        LET out == fout[1]
            own == fin.mpd[TargetSet(fin.mpd, fin.mediaType, fin.repId)]
        IN /\ ~out.err
           /\ Len(out.extinf) = Len(fin.segs)
           /\ \A i \in 1..Len(fin.segs) :
                 out.extinf[i] = (fin.segs[i].duration * 1000) \div own.timescale

====
